---- MODULE Spec2Model ----
(***************************************************************************)
(* Grammar analysis of parseify: nullability, FIRST, FOLLOW, PREDICT and   *)
(* the LL(1) ambiguity report, as implemented in src/src/productions.rs    *)
(* and src/src/ll_processing.rs and wired together in src/src/main.rs.     *)
(*                                                                         *)
(* The intermediate representation (a Vec<NonTerminal>) is the state; one  *)
(* action per analysis stage.  Hash-based collections (HashSet<Node>) are  *)
(* iterated in an unspecified order: every operator that iterates one      *)
(* returns the set of results over all iteration orders, and the action    *)
(* picks one of them.                                                      *)
(*                                                                         *)
(* The LR automaton builder of src/src/lr_processing.rs is modelled on the *)
(* IR process() leaves, in both modes, under its own specification SpecLR: *)
(* one action per stage of lr_process.                                     *)
(*                                                                         *)
(* Further specifications follow single parts of the program:              *)
(*   SpecDfs    nullable_dfs and first_n_follow_set_dfs, call by call;     *)
(*   SpecLRRec  fill_out_automaton, closure and production_closure, call   *)
(*              by call;                                                   *)
(*   SpecScan   Scanner::scan of src/src/scanner.rs on texts, one action   *)
(*              per turn of its loop;                                      *)
(*   SpecParse  Parser::parse of src/src/parser.rs on token sequences.     *)
(***************************************************************************)
EXTENDS Integers, Sequences, FiniteSets, TLC

VARIABLES
  nts,        \* the IR: sequence of NonTerminal records (main.rs non_terminals)
  pc,         \* position of main() in the pipeline
  diags,      \* diagnostics printed so far by print_ambiguity, in order
  first_run,  \* the IR as the first process() run left it (<<>> before that)
  is_k0,        \* lr_process: the mode, true for LR(0)
  root_closure, \* lr_process: the tree of closures under the augmenting item
  closure_set,  \* lr_process: the closures found so far, in order
  state_table,  \* lr_process: the table built from closure_set
  first_table,  \* the table the first lr_process run returned
  rec_kind,     \* the recursive function whose calls are followed one by one
  rec_args,     \* the arguments its calls share by reference
  rec_stack,    \* its call stack, the innermost call last
  scanner,      \* the Scanner struct
  scan_result,  \* what Scanner::scan returned
  first_scan,   \* what the scan of the text without the appended part returned
  parser,       \* the Parser struct
  parse_result  \* what Parser::parse returned

\* the variables of lr_process
lr_vars == <<is_k0, root_closure, closure_set, state_table, first_table>>

\* the variables of a recursion followed call by call
rec_vars == <<rec_kind, rec_args, rec_stack>>

\* the variables of the front end: scanner and parser
front_vars == <<scanner, scan_result, first_scan, parser, parse_result>>

vars == <<nts, pc, diags, first_run, lr_vars, rec_vars, front_vars>>

\* the front end is not being followed
FrontIdle ==
  /\ scanner = <<>>
  /\ scan_result = <<>>
  /\ first_scan = <<>>
  /\ parser = <<>>
  /\ parse_result = <<>>

\* no recursion is being followed
RecIdle ==
  /\ rec_kind = ""
  /\ rec_args = <<>>
  /\ rec_stack = <<>>

----------------------------------------------------------------------------
(* Data model                                                              *)

\* scanner.rs Token, without its span: kind is "ID" or "TERM" in a production
Token(kind, value) == [kind |-> kind, value |-> value]

Id(v) == Token("ID", v)

Term(v) == Token("TERM", v)

\* productions.rs Production::new, with the token list filled in by the parser
NewProduction(list) == [list |-> list, predict_set |-> {}]

\* productions.rs NonTerminal::new, with the fields Parser::parse sets
NewNonTerminal(name, is_start, prods) ==
  [name |-> name, is_start_term |-> is_start, is_nullable |-> FALSE,
   first_set |-> {}, follow_set |-> {}, productions |-> prods,
   predict_set |-> {}]

\* productions.rs Node: equality and hash look at the key only
Node(key, is_term) == [key |-> key, is_term |-> is_term]

\* HashMap<String, HashSet<Node>>::new()
EmptyGraph == [k \in {} |-> {}]

\* if !graph.contains_key(k) { graph.insert(k, HashSet::new()) }
AddKey(graph, k) ==
  IF k \in DOMAIN graph THEN graph
  ELSE [x \in DOMAIN graph \cup {k} |-> IF x = k THEN {} ELSE graph[x]]

\* HashSet<Node>::insert: a node whose key is already present is not replaced
InsertNode(set, node) ==
  IF \E n \in set : n.key = node.key THEN set ELSE set \cup {node}

\* graph.get_mut(k).unwrap().insert(node)
AddNode(graph, k, node) == [graph EXCEPT ![k] = InsertNode(@, node)]

----------------------------------------------------------------------------
(* Bounds and the grammars analysed                                        *)

\* bound on the size of an enumerated grammar: productions plus tokens
MaxSize == 6

\* names of the non-terminals of the enumerated grammars: a grammar defines
\* the first one, two or three of them, and the first is its start (Parser::
\* parse flags the first one defined).  EOF is the reserved end-of-input
\* sentinel and is not among them.
NTNames == <<"S", "A", "B">>

\* terminal values of the enumerated grammars
Terminals == {"x", "y"}

\* the tokens a production of a grammar over the given names is made of
Symbols(names) ==
  {Id(names[i]) : i \in 1..Len(names)} \cup {Term(t) : t \in Terminals}

\* token lists of length 0..n
TokenLists(names, n) == UNION {[1..k -> Symbols(names)] : k \in 0..n}

RECURSIVE ProdSeqs(_, _)
\* sequences of token lists whose size (one per list plus its tokens) is
\* at most b
ProdSeqs(names, b) ==
  IF b < 1 THEN {<<>>}
  ELSE {<<>>} \cup
       UNION {{<<l>> \o rest : rest \in ProdSeqs(names, b - 1 - Len(l))} :
                l \in TokenLists(names, b - 1)}

RECURSIVE SizeOf(_)
SizeOf(ps) == IF ps = <<>> THEN 0 ELSE 1 + Len(Head(ps)) + SizeOf(Tail(ps))

RECURSIVE GrammarsFrom(_, _, _)
\* every assignment of a non-empty production list to names[i..] within the
\* size budget b; a grammar is a sequence of <<name, lists>>
GrammarsFrom(names, i, b) ==
  IF i > Len(names) THEN {<<>>}
  ELSE UNION {{<< <<names[i], ps>> >> \o rest :
                 rest \in GrammarsFrom(names, i + 1, b - SizeOf(ps))} :
                ps \in {q \in ProdSeqs(names, b - (Len(names) - i)) : q # <<>>}}

\* the IR Parser::parse returns for a grammar: the first non-terminal is the
\* start, every is_nullable is false and every derived set is empty
MakeIR(g) ==
  [i \in 1..Len(g) |->
     NewNonTerminal(g[i][1], i = 1,
                    [p \in 1..Len(g[i][2]) |-> NewProduction(g[i][2][p])])]

\* grammars of the specification's scenarios and of the claims' examples
Examples ==
  { \* E ::= T E' ; E' ::= "+" T E' | ; T ::= F T' ; T' ::= "*" F T' | ;
    \* F ::= "(" E ")" | "id" ;
    << <<"E", << <<Id("T"), Id("E'")>> >> >>,
       <<"E'", << <<Term("+"), Id("T"), Id("E'")>>, <<>> >> >>,
       <<"T", << <<Id("F"), Id("T'")>> >> >>,
       <<"T'", << <<Term("*"), Id("F"), Id("T'")>>, <<>> >> >>,
       <<"F", << <<Term("("), Id("E"), Term(")")>>, <<Term("id")>> >> >> >>,
    \* S ::= "if" S "else" S | "if" S | "other" ;
    << <<"S", << <<Term("if"), Id("S"), Term("else"), Id("S")>>,
                 <<Term("if"), Id("S")>>, <<Term("other")>> >> >> >>,
    \* S ::= A "x" ; A ::= ;
    << <<"S", << <<Id("A"), Term("x")>> >> >>, <<"A", << <<>> >> >> >>,
    \* S ::= A ; A ::= B | "x" ; B ::= ;
    << <<"S", << <<Id("A")>> >> >>,
       <<"A", << <<Id("B")>>, <<Term("x")>> >> >>,
       <<"B", << <<>> >> >> >>,
    \* S ::= A B ; A ::= C ; B ::= C ; C ::= "x" ;
    << <<"S", << <<Id("A"), Id("B")>> >> >>,
       <<"A", << <<Id("C")>> >> >>,
       <<"B", << <<Id("C")>> >> >>,
       <<"C", << <<Term("x")>> >> >> >>,
    \* S ::= A EOF | ; A ::= "x" | ;   (EOF an undeclared identifier)
    << <<"S", << <<Id("A"), Term("EOF")>>, <<>> >> >>,
       <<"A", << <<Term("x")>>, <<>> >> >> >> }

Grammars ==
  UNION {GrammarsFrom(SubSeq(NTNames, 1, k), 1, MaxSize) : k \in 1..Len(NTNames)}
    \cup Examples

----------------------------------------------------------------------------
(* Views of the IR                                                         *)

Names(ir) == {ir[i].name : i \in 1..Len(ir)}

\* nts.iter().find(|x| x.name.eq(name)).unwrap(): the first with that name
Find(ir, name) ==
  ir[CHOOSE i \in 1..Len(ir) :
       ir[i].name = name /\ \A j \in 1..(i - 1) : ir[j].name # name]

\* the HashMap nullable_info built by inserting (name, is_nullable) for each
\* non-terminal in order: a later entry replaces an earlier one of that name
NullableInfo(ir) ==
  [n \in Names(ir) |->
     ir[CHOOSE i \in 1..Len(ir) :
          ir[i].name = n /\ \A j \in (i + 1)..Len(ir) : ir[j].name # n].is_nullable]

----------------------------------------------------------------------------
(* Nullability: productions.rs nullable_dfs and nullability                *)

RECURSIVE nullable_dfs(_, _, _, _), nullable_dfs_loop(_, _, _, _, _, _)
\* nullable_dfs: the set of [info, visited] it can leave behind, one per order
\* in which the adjacency HashSets are iterated.  visited is a Vec used only
\* through contains(), hence a set here.
nullable_dfs(nullable_info, graph, start, visited) ==
  LET v == visited \cup {start} IN
  IF start \in DOMAIN nullable_info /\ nullable_info[start]
  THEN {[info |-> nullable_info, visited |-> v]}
  ELSE nullable_dfs_loop(nullable_info, graph, start, v, graph[start], TRUE)

RECURSIVE nullable_dfs_loop_PastTerminals(_, _, _, _, _, _)
\* a change of nullable_dfs_loop: a terminal is passed over like a visited node
nullable_dfs_loop_PastTerminals(nullable_info, graph, start, visited, rest, is_null) ==
  IF rest = {}
  THEN {[info |-> IF start \in DOMAIN nullable_info
                  THEN [nullable_info EXCEPT ![start] = is_null]
                  ELSE nullable_info,
         visited |-> visited]}
  ELSE UNION {
         IF adj.key \in visited \/ adj.is_term
         THEN nullable_dfs_loop_PastTerminals(nullable_info, graph, start,
                                              visited, rest \ {adj}, is_null)
         ELSE UNION {
                nullable_dfs_loop_PastTerminals(
                  r.info, graph, start, r.visited, rest \ {adj},
                  is_null /\ r.info[adj.key]) :
                  r \in nullable_dfs(nullable_info, graph, adj.key, visited)}
         : adj \in rest}

\* the for loop over graph.get(&start): rest holds the nodes not yet iterated
nullable_dfs_loop(nullable_info, graph, start, visited, rest, is_null) ==
  IF rest = {}
  THEN {[info |-> IF start \in DOMAIN nullable_info
                  THEN [nullable_info EXCEPT ![start] = is_null]
                  ELSE nullable_info,
         visited |-> visited]}
  ELSE UNION {
         IF adj.key \in visited
         THEN nullable_dfs_loop(nullable_info, graph, start, visited,
                                rest \ {adj}, is_null)
         ELSE IF adj.is_term
         THEN nullable_dfs_loop(nullable_info, graph, start, visited, {}, FALSE)
         ELSE UNION {
                nullable_dfs_loop(r.info, graph, start, r.visited, rest \ {adj},
                                  is_null /\ r.info[adj.key]) :
                  r \in nullable_dfs(nullable_info, graph, adj.key, visited)}
         : adj \in rest}

RECURSIVE NullGraphTokens(_, _, _, _)
\* nullability, lines 200-207: the tokens of one production, from index i
NullGraphTokens(graph, name, list, i) ==
  IF i > Len(list) THEN graph
  ELSE NullGraphTokens(
         AddNode(AddKey(graph, list[i].value), name,
                 Node(list[i].value, list[i].kind # "ID")),
         name, list, i + 1)

RECURSIVE NullGraphProds(_, _, _, _)
\* nullability, lines 194-208: the productions of one non-terminal, from p;
\* an empty production marks the non-terminal and ends the loop
NullGraphProds(graph, name, prods, p) ==
  IF p > Len(prods) THEN [graph |-> graph, is_nullable |-> FALSE]
  ELSE IF prods[p].list = <<>> THEN [graph |-> graph, is_nullable |-> TRUE]
  ELSE NullGraphProds(NullGraphTokens(graph, name, prods[p].list, 1),
                      name, prods, p + 1)

RECURSIVE NullGraphNts(_, _, _)
\* nullability, lines 185-209: the first loop, from non-terminal n
NullGraphNts(graph, ir, n) ==
  IF n > Len(ir) THEN [graph |-> graph, nts |-> ir]
  ELSE IF ir[n].is_nullable THEN NullGraphNts(graph, ir, n + 1)
  ELSE LET r == NullGraphProds(AddKey(graph, ir[n].name), ir[n].name,
                               ir[n].productions, 1)
       IN NullGraphNts(r.graph, [ir EXCEPT ![n].is_nullable = r.is_nullable],
                       n + 1)

RECURSIVE InsertTokens(_, _, _)
\* nullability, lines 243-246: the adjacency set of one production
InsertTokens(set, list, i) ==
  IF i > Len(list) THEN set
  ELSE InsertTokens(InsertNode(set, Node(list[i].value, list[i].kind # "ID")),
                    list, i + 1)

\* nullability, lines 222-246: the graph without the non-terminal, plus the
\* non-terminal with the tokens of one production as its adjacency set
ProdGraph(graph, name, list) ==
  [k \in DOMAIN graph \cup {name} |->
     IF k = name THEN InsertTokens({}, list, 1)
     ELSE {node \in graph[k] : node.key # name}]

RECURSIVE NullProds(_, _, _, _, _)
\* nullability, lines 221-260: the productions of one non-terminal, from p;
\* the set of [info, is_nullable] the loop can end with
NullProds(info, graph, nt, p, is_nullable) ==
  IF p > Len(nt.productions) \/ is_nullable
  THEN {[info |-> info, is_nullable |-> is_nullable]}
  ELSE UNION {NullProds(r.info, graph, nt, p + 1, r.info[nt.name]) :
                r \in nullable_dfs(info,
                                   ProdGraph(graph, nt.name, nt.productions[p].list),
                                   nt.name, {})}

RECURSIVE NullNts(_, _, _, _)
\* nullability, lines 216-261: the second loop, from non-terminal n
NullNts(info, graph, ir, n) ==
  IF n > Len(ir) THEN {ir}
  ELSE IF ir[n].is_nullable THEN NullNts(info, graph, ir, n + 1)
  ELSE UNION {NullNts(r.info, graph,
                      [ir EXCEPT ![n].is_nullable = r.is_nullable], n + 1) :
                r \in NullProds(info, graph, ir[n], 1, FALSE)}

\* nullability(nts): the IRs it can produce
nullability(ir) ==
  LET r == NullGraphNts(EmptyGraph, ir, 1)
  IN NullNts(NullableInfo(r.nts), r.graph, r.nts, 1)

----------------------------------------------------------------------------
(* FIRST: productions.rs first_n_follow_set_dfs and first_sets             *)

RECURSIVE first_n_follow_set_dfs(_, _, _, _), first_n_follow_set_loop(_, _, _, _)
\* first_n_follow_set_dfs: the set of [set, visited] it can leave behind, one
\* per order in which the adjacency HashSets are iterated
first_n_follow_set_dfs(first_set, graph, start, visited) ==
  first_n_follow_set_loop(first_set, graph, visited \cup {start}, graph[start])

RECURSIVE first_n_follow_set_loop_AnyKind(_, _, _, _)
\* first_n_follow_set_loop that collects a node whatever its is_term
first_n_follow_set_loop_AnyKind(first_set, graph, visited, rest) ==
  IF rest = {} THEN {[set |-> first_set, visited |-> visited]}
  ELSE UNION {
         IF adj.key \in visited
         THEN first_n_follow_set_loop_AnyKind(first_set, graph, visited,
                                              rest \ {adj})
         ELSE UNION {
                first_n_follow_set_loop_AnyKind(r.set, graph, r.visited,
                                                rest \ {adj}) :
                  r \in first_n_follow_set_dfs(first_set \cup {adj.key},
                                               graph, adj.key, visited)}
         : adj \in rest}

\* the for loop over graph.get(&start): rest holds the nodes not yet iterated
first_n_follow_set_loop(first_set, graph, visited, rest) ==
  IF rest = {} THEN {[set |-> first_set, visited |-> visited]}
  ELSE UNION {
         IF adj.key \in visited
         THEN first_n_follow_set_loop(first_set, graph, visited, rest \ {adj})
         ELSE UNION {
                first_n_follow_set_loop(r.set, graph, r.visited, rest \ {adj}) :
                  r \in first_n_follow_set_dfs(
                          IF adj.is_term THEN first_set \cup {adj.key}
                          ELSE first_set,
                          graph, adj.key, visited)}
         : adj \in rest}

\* FirstGraphTokens that stops after the first token of the production
FirstGraphTokens_StopAtFirst(graph, name, list, i, nullable_info) ==
  IF i > Len(list) THEN graph
  ELSE AddNode(AddKey(graph, list[i].value), name,
               Node(list[i].value, list[i].kind # "ID"))

RECURSIVE FirstGraphTokens(_, _, _, _, _)
\* first_sets, lines 273-285: the tokens of one production, from index i,
\* up to and including the first that is a terminal or not nullable
FirstGraphTokens(graph, name, list, i, nullable_info) ==
  IF i > Len(list) THEN graph
  ELSE LET is_nt == list[i].kind = "ID"
           g == AddNode(AddKey(graph, list[i].value), name,
                        Node(list[i].value, ~is_nt))
       IN IF ~is_nt \/ ~nullable_info[list[i].value] THEN g
          ELSE FirstGraphTokens(g, name, list, i + 1, nullable_info)

RECURSIVE FirstGraphProds(_, _, _, _, _)
\* first_sets, lines 272-286
FirstGraphProds(graph, name, prods, p, nullable_info) ==
  IF p > Len(prods) THEN graph
  ELSE FirstGraphProds(
         FirstGraphTokens(graph, name, prods[p].list, 1, nullable_info),
         name, prods, p + 1, nullable_info)

RECURSIVE FirstGraph(_, _, _, _)
\* first_sets, lines 267-287
FirstGraph(graph, ir, n, nullable_info) ==
  IF n > Len(ir) THEN graph
  ELSE FirstGraph(
         FirstGraphProds(AddKey(graph, ir[n].name), ir[n].name,
                         ir[n].productions, 1, nullable_info),
         ir, n + 1, nullable_info)

RECURSIVE FirstDfsAll(_, _, _)
\* first_sets, lines 289-292: the traversal from each non-terminal, from n
FirstDfsAll(graph, ir, n) ==
  IF n > Len(ir) THEN {ir}
  ELSE UNION {FirstDfsAll(graph, [ir EXCEPT ![n].first_set = r.set], n + 1) :
                r \in first_n_follow_set_dfs(ir[n].first_set, graph,
                                             ir[n].name, {})}

\* first_sets that also puts EOF in the first_set of a nullable start
first_sets_EofForNullableStart(ir, nullable_info) ==
  {[n \in 1..Len(r) |->
      IF r[n].is_start_term /\ r[n].is_nullable
      THEN [r[n] EXCEPT !.first_set = @ \cup {"EOF"}] ELSE r[n]] :
     r \in FirstDfsAll(FirstGraph(EmptyGraph, ir, 1, nullable_info), ir, 1)}

\* first_sets(nts, nullable_info): the IRs it can produce
first_sets(ir, nullable_info) ==
  FirstDfsAll(FirstGraph(EmptyGraph, ir, 1, nullable_info), ir, 1)

----------------------------------------------------------------------------
(* FOLLOW: productions.rs follow_sets                                      *)

\* nullable_info.get(k).unwrap_or(&false)
InfoGet(nullable_info, k) ==
  IF k \in DOMAIN nullable_info THEN nullable_info[k] ELSE FALSE

\* follow_sets, lines 328-345 and 356-373: the terminal nodes a token
\* contributes, its first_set when it is a non-terminal, else itself
FollowNodes(nts_clone, token) ==
  IF token.kind = "ID"
  THEN {Node(t, TRUE) : t \in Find(nts_clone, token.value).first_set}
  ELSE {Node(token.value, TRUE)}

\* inserting terminal nodes of distinct keys one after the other
InsertNodes(set, nodes) ==
  set \cup {n \in nodes : ~\E m \in set : m.key = n.key}

\* FollowInner that does not look beyond the nullable token
FollowInner_NoLookBeyond(graph, nts_clone, nullable_info, previous_token, list, j) ==
  [graph |-> graph, found_nonnullable |-> j <= Len(list)]

RECURSIVE FollowInner(_, _, _, _, _, _)
\* follow_sets, lines 350-379: the tokens after a nullable token, from j
FollowInner(graph, nts_clone, nullable_info, previous_token, list, j) ==
  IF j > Len(list) THEN [graph |-> graph, found_nonnullable |-> FALSE]
  ELSE LET g == [AddKey(graph, list[j].value) EXCEPT
                   ![previous_token.value] =
                      InsertNodes(@, FollowNodes(nts_clone, list[j]))]
       IN IF ~InfoGet(nullable_info, list[j].value)
          THEN [graph |-> g, found_nonnullable |-> TRUE]
          ELSE FollowInner(g, nts_clone, nullable_info, previous_token,
                           list, j + 1)

RECURSIVE FollowTokens(_, _, _, _, _, _)
\* follow_sets, lines 316-392: token i with its predecessor as previous_token
FollowTokens(graph, nts_clone, nullable_info, name, list, i) ==
  IF i > Len(list) THEN graph
  ELSE LET token == list[i]
           previous_token == list[i - 1]
           g1 == AddKey(graph, token.value)
           g2 == [g1 EXCEPT ![previous_token.value] =
                    InsertNodes(@, FollowNodes(nts_clone, token))]
           r == FollowInner(g2, nts_clone, nullable_info, previous_token,
                            list, i + 1)
           g3 == IF InfoGet(nullable_info, token.value)
                 THEN IF ~r.found_nonnullable
                      THEN AddNode(r.graph, previous_token.value,
                                   Node(name, FALSE))
                      ELSE r.graph
                 ELSE g2
       IN FollowTokens(IF previous_token.kind # "ID" THEN g1 ELSE g3,
                       nts_clone, nullable_info, name, list, i + 1)

\* follow_sets, lines 307-401: one production
FollowProd(graph, nts_clone, nullable_info, name, list) ==
  IF list = <<>> THEN graph
  ELSE LET g == FollowTokens(AddKey(graph, list[1].value), nts_clone,
                             nullable_info, name, list, 2)
           last == list[Len(list)]
       IN IF last.kind = "ID" THEN AddNode(g, last.value, Node(name, FALSE))
          ELSE g

RECURSIVE FollowGraphProds(_, _, _, _, _, _)
\* follow_sets, lines 306-402
FollowGraphProds(graph, nts_clone, nullable_info, name, prods, p) ==
  IF p > Len(prods) THEN graph
  ELSE FollowGraphProds(
         FollowProd(graph, nts_clone, nullable_info, name, prods[p].list),
         nts_clone, nullable_info, name, prods, p + 1)

\* FollowStart that adds nothing
FollowStart_None(graph, nt) == graph

\* follow_sets, lines 404-411: EOF follows the start non-terminal
FollowStart(graph, nt) ==
  IF nt.is_start_term THEN AddNode(graph, nt.name, Node("EOF", TRUE))
  ELSE graph

RECURSIVE FollowGraph(_, _, _, _)
\* follow_sets, lines 301-412
FollowGraph(graph, ir, n, nullable_info) ==
  IF n > Len(ir) THEN graph
  ELSE FollowGraph(
         FollowStart(
           FollowGraphProds(AddKey(graph, ir[n].name), ir, nullable_info,
                            ir[n].name, ir[n].productions, 1),
           ir[n]),
         ir, n + 1, nullable_info)

RECURSIVE FollowDfsAll(_, _, _)
\* follow_sets, lines 414-417: the traversal from each non-terminal, from n
FollowDfsAll(graph, ir, n) ==
  IF n > Len(ir) THEN {ir}
  ELSE UNION {FollowDfsAll(graph, [ir EXCEPT ![n].follow_set = r.set], n + 1) :
                r \in first_n_follow_set_dfs(ir[n].follow_set, graph,
                                             ir[n].name, {})}

\* follow_sets(nts, nullable_info): the IRs it can produce
follow_sets(ir, nullable_info) ==
  FollowDfsAll(FollowGraph(AddKey(EmptyGraph, "EOF"), ir, 1, nullable_info),
               ir, 1)

----------------------------------------------------------------------------
(* PREDICT and the ambiguity report: productions.rs                        *)

RECURSIVE PredictTokens(_, _, _, _)
\* predict_sets, lines 424-441: the tokens of one production, from index i;
\* the predict_set so far and should_add_follow
PredictTokens(nts_clone, list, i, predict_set) ==
  IF i > Len(list) THEN [set |-> predict_set, should_add_follow |-> TRUE]
  ELSE IF list[i].kind # "ID"
  THEN [set |-> predict_set \cup {list[i].value}, should_add_follow |-> FALSE]
  ELSE LET token_as_nt == Find(nts_clone, list[i].value)
           set == predict_set \cup token_as_nt.first_set
       IN IF ~token_as_nt.is_nullable
          THEN [set |-> set, should_add_follow |-> FALSE]
          ELSE PredictTokens(nts_clone, list, i + 1, set)

\* PredictProd that adds the follow_set whatever should_add_follow says
PredictProd_AlwaysFollow(nts_clone, nt, prod) ==
  [prod EXCEPT !.predict_set =
     PredictTokens(nts_clone, prod.list, 1, prod.predict_set).set
       \cup nt.follow_set]

\* predict_sets, lines 423-448: one production of the non-terminal nt
PredictProd(nts_clone, nt, prod) ==
  LET r == PredictTokens(nts_clone, prod.list, 1, prod.predict_set)
  IN [prod EXCEPT !.predict_set =
        IF r.should_add_follow THEN r.set \cup nt.follow_set ELSE r.set]

\* productions::predict_sets(nts)
predict_sets(ir) ==
  [n \in 1..Len(ir) |->
     [ir[n] EXCEPT !.productions =
        [p \in 1..Len(ir[n].productions) |->
           PredictProd(ir, ir[n], ir[n].productions[p])]]]

\* one call of print_ambiguity, made while looking at production prod of nt
Ambiguity(nt_name, prod, intersection) ==
  [nt |-> nt_name, prod |-> prod, terms |-> intersection]

\* the reports of one find_ambiguities call as they reach the output, each
\* with the caller that had them printed
Printed(caller, reports) ==
  [k \in 1..Len(reports) |->
     [caller |-> caller, nt |-> reports[k].nt, prod |-> reports[k].prod,
      terms |-> reports[k].terms]]

RECURSIVE SeenPredictionTokens(_, _)
\* find_ambiguities, lines 454-467: seen_prediction_tokens before production p
SeenPredictionTokens(prods, p) ==
  IF p <= 1 THEN {}
  ELSE SeenPredictionTokens(prods, p - 1) \cup prods[p - 1].predict_set

RECURSIVE AmbiguitiesOfProds_MoreThanOne(_, _)
\* AmbiguitiesOfProds that reports only intersections of two or more terminals
AmbiguitiesOfProds_MoreThanOne(nt, p) ==
  IF p < 1 THEN <<>>
  ELSE LET intersection ==
             SeenPredictionTokens(nt.productions, p)
               \cap nt.productions[p].predict_set
       IN AmbiguitiesOfProds_MoreThanOne(nt, p - 1) \o
            (IF Cardinality(intersection) > 1
             THEN <<Ambiguity(nt.name, p, intersection)>> ELSE <<>>)

RECURSIVE AmbiguitiesOfProds(_, _)
\* find_ambiguities, lines 456-468: the reports for productions 1..p of nt
AmbiguitiesOfProds(nt, p) ==
  IF p < 1 THEN <<>>
  ELSE LET intersection ==
             SeenPredictionTokens(nt.productions, p)
               \cap nt.productions[p].predict_set
       IN AmbiguitiesOfProds(nt, p - 1) \o
            (IF Cardinality(intersection) > 0
             THEN <<Ambiguity(nt.name, p, intersection)>> ELSE <<>>)

RECURSIVE find_ambiguities_upto(_, _)
find_ambiguities_upto(ir, n) ==
  IF n < 1 THEN <<>>
  ELSE find_ambiguities_upto(ir, n - 1) \o
         AmbiguitiesOfProds(ir[n], Len(ir[n].productions))

\* productions::find_ambiguities(nts): the reports it prints, in order
find_ambiguities(ir) == find_ambiguities_upto(ir, Len(ir))

\* process, lines 165-179: a trailing token of kind EOF is removed from the
\* productions of the start non-terminal
StripEof(ir) ==
  [n \in 1..Len(ir) |->
     IF ~ir[n].is_start_term THEN ir[n]
     ELSE [ir[n] EXCEPT !.productions =
             [p \in 1..Len(ir[n].productions) |->
                LET prod == ir[n].productions[p] IN
                IF prod.list # <<>> /\ prod.list[Len(prod.list)].kind = "EOF"
                THEN [prod EXCEPT !.list = SubSeq(@, 1, Len(@) - 1)]
                ELSE prod]]]

\* productions::process(non_terminals): the [nts, diags] it can end with
process(ir) ==
  UNION {UNION {{[nts |-> StripEof(predict_sets(c)),
                  diags |-> find_ambiguities(predict_sets(c))] :
                   c \in follow_sets(b, NullableInfo(a))} :
                  b \in first_sets(a, NullableInfo(a))} :
           a \in nullability(ir)}

----------------------------------------------------------------------------
(* PREDICT and the ambiguity report again: ll_processing.rs                *)

RECURSIVE LLPredictTokens(_, _, _, _)
\* ll_processing::predict_sets, lines 32-49
LLPredictTokens(nts_clone, list, i, predict_set) ==
  IF i > Len(list) THEN [set |-> predict_set, should_add_follow |-> TRUE]
  ELSE IF list[i].kind # "ID"
  THEN [set |-> predict_set \cup {list[i].value}, should_add_follow |-> FALSE]
  ELSE LET token_as_nt == Find(nts_clone, list[i].value)
           set == predict_set \cup token_as_nt.first_set
       IN IF ~token_as_nt.is_nullable
          THEN [set |-> set, should_add_follow |-> FALSE]
          ELSE LLPredictTokens(nts_clone, list, i + 1, set)

\* ll_processing::predict_sets(nts)
ll_predict_sets(ir) ==
  [n \in 1..Len(ir) |->
     [ir[n] EXCEPT !.productions =
        [p \in 1..Len(ir[n].productions) |->
           LET prod == ir[n].productions[p]
               r == LLPredictTokens(ir, prod.list, 1, prod.predict_set)
           IN [prod EXCEPT !.predict_set =
                 IF r.should_add_follow THEN r.set \cup ir[n].follow_set
                 ELSE r.set]]]]

RECURSIVE LLAmbiguitiesOfProds(_, _)
\* ll_processing::find_ambiguities, lines 62-76
LLAmbiguitiesOfProds(nt, p) ==
  IF p < 1 THEN <<>>
  ELSE LET intersection ==
             UNION {nt.productions[q].predict_set : q \in 1..(p - 1)}
               \cap nt.productions[p].predict_set
       IN LLAmbiguitiesOfProds(nt, p - 1) \o
            (IF Cardinality(intersection) > 0
             THEN <<Ambiguity(nt.name, p, intersection)>> ELSE <<>>)

RECURSIVE ll_find_ambiguities_upto(_, _)
ll_find_ambiguities_upto(ir, n) ==
  IF n < 1 THEN <<>>
  ELSE ll_find_ambiguities_upto(ir, n - 1) \o
         LLAmbiguitiesOfProds(ir[n], Len(ir[n].productions))

\* ll_processing::find_ambiguities(nts): the reports it prints, in order
ll_find_ambiguities(ir) == ll_find_ambiguities_upto(ir, Len(ir))

----------------------------------------------------------------------------
(* The LR automaton builder: lr_processing.rs                              *)

\* Action::Accept
Accept == <<"Accept">>

\* Action::Shift(state)
Shift(state) == <<"Shift", state>>

\* Action::Reduce(matched, nt_name)
Reduce(matched, nt_name) == <<"Reduce", matched, nt_name>>

\* ContextualProduction::new: an item with the dot in front of the production
NewContextualProduction(nt_name, production, predict_set) ==
  [nt_name |-> nt_name, matched |-> <<>>, will_match |-> production.list,
   predict_set |-> predict_set]

\* ContextualProduction::new_advanced: the dot moved over one token, the
\* predict_set cloned
new_advanced(prev) ==
  [nt_name |-> prev.nt_name,
   matched |-> Append(prev.matched, Head(prev.will_match)),
   will_match |-> Tail(prev.will_match),
   predict_set |-> prev.predict_set]

\* BTreeMap<String, Box<Closure>>::new()
NoTransitions == [k \in {} |-> <<>>]

\* Closure::new
NewClosure == [prods |-> <<>>, transitions |-> NoTransitions]

\* State::new
NewState ==
  [common_actions |-> <<>>, actions |-> [k \in {} |-> <<>>],
   nt_state_transitions |-> [k \in {} |-> 0]]

\* StateTable::new
NewStateTable == [states |-> <<>>, seen_terms |-> {}, seen_non_terms |-> {}]

\* the ascending order of String over the values the grammars use: the
\* empty name of the augmenting item, then the terminal literals (a literal
\* keeps its quote, which sorts before every letter), then the identifiers
StringOrder == <<"", "a", "b", "c", "x", "y", "A", "B", "C", "EOF", "S">>

RECURSIVE Reversed(_)
Reversed(s) == IF s = <<>> THEN <<>> ELSE Append(Reversed(Tail(s)), Head(s))

\* a change of the orders a BTreeMap yields its keys in: a second order, as
\* of a map whose iteration order is not fixed
KeyOrders_NotFixed == {StringOrder, Reversed(StringOrder)}

\* the orders in which a BTreeMap<String, _> yields its keys: one, ascending
KeyOrders == {StringOrder}

\* the keys of a map in the order ord
KeysOf(map, ord) == SelectSeq(ord, LAMBDA k : k \in DOMAIN map)

\* lr_process, lines 145-153: nt_lookup, a later non-terminal of the same
\* name replacing an earlier one
NtLookup(ir) ==
  [name \in Names(ir) |->
     ir[CHOOSE i \in 1..Len(ir) :
          /\ ir[i].name = name
          /\ \A j \in 1..Len(ir) : ir[j].name = name => j <= i]]

\* lr_process, lines 146-151: the name of the last non-terminal flagged as
\* start, the empty string when none is
StartNtName(ir) ==
  IF \A i \in 1..Len(ir) : ~ir[i].is_start_term THEN ""
  ELSE ir[CHOOSE i \in 1..Len(ir) :
            /\ ir[i].is_start_term
            /\ \A j \in 1..Len(ir) : ir[j].is_start_term => j <= i].name

can_append_to_production_set(set, appendage) ==
  \A i \in 1..Len(set) : set[i] # appendage

can_append_to_set(set, appendage) ==
  \A i \in 1..Len(set) : set[i].prods # appendage.prods

\* Option<u64>: <<>> is None, <<i>> is Some(i); indices count from 0
find_closure_index(set, clo) ==
  IF \A i \in 1..Len(set) : set[i].prods # clo.prods THEN <<>>
  ELSE << (CHOOSE i \in 1..Len(set) :
             /\ set[i].prods = clo.prods
             /\ \A j \in 1..(i - 1) : set[j].prods # clo.prods) - 1 >>

RECURSIVE calculate_followers_loop(_, _, _, _)
\* the loop of calculate_followers from the i-th token of will_match on,
\* and the extension by the parent's predict_set when no break was taken
calculate_followers_loop(nt_lookup, parent_prod, i, followers) ==
  IF i > Len(parent_prod.will_match)
  THEN followers \cup parent_prod.predict_set
  ELSE LET token == parent_prod.will_match[i] IN
       IF token.value \notin DOMAIN nt_lookup
       THEN followers \cup {token.value}
       ELSE LET nt == nt_lookup[token.value] IN
            IF ~nt.is_nullable THEN followers \cup nt.first_set
            ELSE calculate_followers_loop(nt_lookup, parent_prod, i + 1,
                                          followers \cup nt.first_set)

\* calculate_followers: what may follow the non-terminal after the dot of
\* parent_prod (the loop starts at the token behind it)
calculate_followers(nt_lookup, parent_prod) ==
  calculate_followers_loop(nt_lookup, parent_prod, 2, {})

\* a change of Followers: the followers computed in LR(0) mode as well
Followers_WhateverMode(nt_lookup, production, k0) ==
  calculate_followers(nt_lookup, production)

\* production_closure, lines 311-316
Followers(nt_lookup, production, k0) ==
  IF k0 THEN {} ELSE calculate_followers(nt_lookup, production)

\* production_closure, lines 319-323: the followers added to every item of
\* the set that belongs to the non-terminal
ExtendPredictSets(production_set, nt_name, followers) ==
  [i \in 1..Len(production_set) |->
     IF production_set[i].nt_name = nt_name
     THEN [production_set[i] EXCEPT !.predict_set = @ \cup followers]
     ELSE production_set[i]]

RECURSIVE production_closure(_, _, _, _, _)
RECURSIVE production_closure_loop(_, _, _, _, _, _, _)
\* production_closure: the [seen_nts, production_set] it leaves
production_closure(nt_lookup, seen_nts, production, production_set, k0) ==
  IF ~can_append_to_production_set(production_set, production)
  THEN [seen_nts |-> seen_nts, production_set |-> production_set]
  ELSE
    LET pushed == Append(production_set, production) IN
    IF \/ production.will_match = <<>>
       \/ Head(production.will_match).value \notin DOMAIN nt_lookup
    THEN [seen_nts |-> seen_nts, production_set |-> pushed]
    ELSE
      LET nt == nt_lookup[Head(production.will_match).value]
          followers == Followers(nt_lookup, production, k0)
      IN IF nt.name \in seen_nts
         THEN [seen_nts |-> seen_nts,
               production_set |-> ExtendPredictSets(pushed, nt.name, followers)]
         ELSE production_closure_loop(nt_lookup, seen_nts \cup {nt.name}, nt,
                                      1, followers, pushed, k0)

\* production_closure, lines 329-332, from the p-th production of nt on
production_closure_loop(nt_lookup, seen_nts, nt, p, followers, set, k0) ==
  IF p > Len(nt.productions)
  THEN [seen_nts |-> seen_nts, production_set |-> set]
  ELSE
    LET r == production_closure(
               nt_lookup, seen_nts,
               NewContextualProduction(nt.name, nt.productions[p], followers),
               set, k0)
    IN production_closure_loop(nt_lookup, r.seen_nts, nt, p + 1, followers,
                               r.production_set, k0)

RECURSIVE closure_loop(_, _, _, _, _, _)
\* closure, lines 339-341, from the i-th initial production on
closure_loop(nt_lookup, seen_nts, initial_productions, i, prods, k0) ==
  IF i > Len(initial_productions) THEN prods
  ELSE
    LET r == production_closure(nt_lookup, seen_nts, initial_productions[i],
                                prods, k0)
    IN closure_loop(nt_lookup, r.seen_nts, initial_productions, i + 1,
                    r.production_set, k0)

\* closure: closure_so_far with its prods replaced by their closure
closure(nt_lookup, closure_so_far, k0) ==
  [closure_so_far EXCEPT
     !.prods = closure_loop(nt_lookup, {}, closure_so_far.prods, 1, <<>>, k0)]

\* a change of PushAdvanced: the advanced items of every symbol gathered in
\* one closure, under the empty key
PushAdvanced_OneKey(transitions, key, advanced_prod) ==
  [k \in DOMAIN transitions \cup {""} |->
     IF "" \in DOMAIN transitions
     THEN [transitions[""] EXCEPT !.prods = Append(@, advanced_prod)]
     ELSE [NewClosure EXCEPT !.prods = <<advanced_prod>>]]

\* goto, lines 351-356: the advanced item appended to the closure under key,
\* which is created empty when the key is new
PushAdvanced(transitions, key, advanced_prod) ==
  [k \in DOMAIN transitions \cup {key} |->
     IF k = key
     THEN IF key \in DOMAIN transitions
          THEN [transitions[key] EXCEPT !.prods = Append(@, advanced_prod)]
          ELSE [NewClosure EXCEPT !.prods = <<advanced_prod>>]
     ELSE transitions[k]]

RECURSIVE goto_loop(_, _, _)
\* goto from the i-th item on
goto_loop(prods, i, transitions) ==
  IF i > Len(prods) THEN transitions
  ELSE IF prods[i].will_match = <<>> THEN goto_loop(prods, i + 1, transitions)
  ELSE goto_loop(prods, i + 1,
                 PushAdvanced(transitions, Head(prods[i].will_match).value,
                              new_advanced(prods[i])))

\* goto: the closure with one kernel per symbol after a dot
goto(clo) ==
  [clo EXCEPT !.transitions = goto_loop(clo.prods, 1, clo.transitions)]

RECURSIVE fill_out_automaton(_, _, _, _, _)
RECURSIVE fill_out_automaton_loop(_, _, _, _, _, _, _)
\* fill_out_automaton: the [root, closures] it leaves; ord is the order
\* root.transitions.values_mut() yields the children in
fill_out_automaton(nt_lookup, root, closures, k0, ord) ==
  LET closed == closure(nt_lookup, root, k0) IN
  IF ~can_append_to_set(closures, closed)
  THEN [root |-> closed, closure_set |-> closures]
  ELSE LET gone == goto(closed) IN
       fill_out_automaton_loop(nt_lookup, gone, Append(closures, gone), k0,
                               ord, KeysOf(gone.transitions, ord), 1)

\* fill_out_automaton, lines 254-256, from the i-th child on
fill_out_automaton_loop(nt_lookup, root, closures, k0, ord, keys, i) ==
  IF i > Len(keys) THEN [root |-> root, closure_set |-> closures]
  ELSE
    LET r == fill_out_automaton(nt_lookup, root.transitions[keys[i]],
                                closures, k0, ord)
    IN fill_out_automaton_loop(
         nt_lookup, [root EXCEPT !.transitions[keys[i]] = r.root],
         r.closure_set, k0, ord, keys, i + 1)

RECURSIVE recalculate_set(_, _, _)
RECURSIVE recalculate_set_loop(_, _, _, _, _)
\* a change of recalculate_set: the transitions are not followed
recalculate_set_RootOnly(root, closures, ord) == Append(closures, root)

\* recalculate_set: the closures it leaves
recalculate_set(root, closures, ord) ==
  IF ~can_append_to_set(closures, root) THEN closures
  ELSE recalculate_set_loop(root, Append(closures, root), ord,
                            KeysOf(root.transitions, ord), 1)

\* recalculate_set, lines 266-268, from the i-th child on
recalculate_set_loop(root, closures, ord, keys, i) ==
  IF i > Len(keys) THEN closures
  ELSE recalculate_set_loop(
         root, recalculate_set(root.transitions[keys[i]], closures, ord),
         ord, keys, i + 1)

\* lr_process, lines 155-168: the closure holding the augmenting item, whose
\* production is the start non-terminal's name as a token of empty kind
RootClosure(ir) ==
  [NewClosure EXCEPT
     !.prods = << NewContextualProduction(
                    "", NewProduction(<<Token("", StartNtName(ir))>>),
                    {"EOF"}) >>]

\* a change of PushAction: the action replaces the ones under the key
PushAction_Overwrite(actions, key, action) ==
  [k \in DOMAIN actions \cup {key} |->
     IF k = key THEN <<action>> ELSE actions[k]]

\* if !actions.contains_key(key) { insert(key, vec![]) }; then the push
PushAction(actions, key, action) ==
  [k \in DOMAIN actions \cup {key} |->
     IF k = key
     THEN Append(IF key \in DOMAIN actions THEN actions[key] ELSE <<>>, action)
     ELSE actions[k]]

\* HashMap::insert
MapInsert(map, key, value) ==
  [k \in DOMAIN map \cup {key} |-> IF k = key THEN value ELSE map[k]]

RECURSIVE PredictorLoop(_, _, _, _)
\* lr_process, lines 199-212, from the j-th predictor of prod on; acc is
\* [state, seen_terms, seen_non_terms]
PredictorLoop(acc, prod, predictors, j) ==
  IF j > Len(predictors) THEN acc
  ELSE PredictorLoop(
         [acc EXCEPT
            !.seen_terms = @ \cup {predictors[j]},
            !.state.actions =
               PushAction(@, predictors[j],
                          IF prod.nt_name = "" THEN Accept
                          ELSE Reduce(prod.matched, prod.nt_name))],
         prod, predictors, j + 1)

\* a change of CompleteItem: the augmenting item accepts under no lookahead
\* in LR(0) mode too
CompleteItem_NoAcceptK0(acc, prod, k0, ord) ==
  IF k0
  THEN [acc EXCEPT !.state.common_actions =
                      Append(@, Reduce(prod.matched, prod.nt_name))]
  ELSE PredictorLoop(acc, prod,
                     SelectSeq(ord, LAMBDA t : t \in prod.predict_set), 1)

\* a change of CompleteItem: every reduce is a common action, whatever the
\* mode
CompleteItem_ReduceInCommon(acc, prod, k0, ord) ==
  IF prod.nt_name = ""
  THEN [acc EXCEPT !.seen_terms = @ \cup {"EOF"},
                   !.state.actions = PushAction(@, "EOF", Accept)]
  ELSE [acc EXCEPT !.state.common_actions =
                      Append(@, Reduce(prod.matched, prod.nt_name))]

\* lr_process, lines 183-212: the actions of an item with the dot at its end
CompleteItem(acc, prod, k0, ord) ==
  IF k0
  THEN IF prod.nt_name = ""
       THEN [acc EXCEPT !.seen_terms = @ \cup {"EOF"},
                        !.state.actions = PushAction(@, "EOF", Accept)]
       ELSE [acc EXCEPT !.state.common_actions =
                           Append(@, Reduce(prod.matched, prod.nt_name))]
  ELSE PredictorLoop(acc, prod,
                     SelectSeq(ord, LAMBDA t : t \in prod.predict_set), 1)

RECURSIVE ItemLoop(_, _, _, _, _)
\* lr_process, lines 178-213, from the i-th item of the closure on
ItemLoop(acc, prods, i, k0, ord) ==
  IF i > Len(prods) THEN acc
  ELSE IF prods[i].will_match # <<>> THEN ItemLoop(acc, prods, i + 1, k0, ord)
  ELSE ItemLoop(CompleteItem(acc, prods[i], k0, ord), prods, i + 1, k0, ord)

RECURSIVE TransitionLoop(_, _, _, _, _, _)
\* lr_process, lines 215-234, from the i-th transition of current on; every
\* target is found (see UnableToFindState)
TransitionLoop(acc, nt_lookup, closures, current, keys, i) ==
  IF i > Len(keys) THEN acc
  ELSE
    LET transition_value == keys[i]
        next_state_index ==
          find_closure_index(closures, current.transitions[keys[i]])[1]
    IN TransitionLoop(
         IF transition_value \in DOMAIN nt_lookup
         THEN [acc EXCEPT
                 !.seen_non_terms = @ \cup {transition_value},
                 !.state.nt_state_transitions =
                    MapInsert(@, transition_value, next_state_index)]
         ELSE [acc EXCEPT
                 !.seen_terms = @ \cup {transition_value},
                 !.state.actions =
                    PushAction(@, transition_value, Shift(next_state_index))],
         nt_lookup, closures, current, keys, i + 1)

\* lr_process, lines 216-220: some transition's target is in no closure of
\* the set, and lr_process panics with "Unable to find State!"
UnableToFindState(closures) ==
  \E c \in 1..Len(closures) :
    \E key \in DOMAIN closures[c].transitions :
      find_closure_index(closures, closures[c].transitions[key]) = <<>>

RECURSIVE StateLoop(_, _, _, _, _, _)
\* lr_process, lines 175-237, from the c-th closure on
StateLoop(table, nt_lookup, closures, c, k0, ord) ==
  IF c > Len(closures) THEN table
  ELSE
    LET current == closures[c]
        start == [state |-> NewState,
                  seen_terms |-> table.seen_terms,
                  seen_non_terms |-> table.seen_non_terms]
        acc == TransitionLoop(ItemLoop(start, current.prods, 1, k0, ord),
                              nt_lookup, closures, current,
                              KeysOf(current.transitions, ord), 1)
    IN StateLoop([states |-> Append(table.states, acc.state),
                  seen_terms |-> acc.seen_terms,
                  seen_non_terms |-> acc.seen_non_terms],
                 nt_lookup, closures, c + 1, k0, ord)

\* lr_process, lines 174-237: the table of a closure set
BuildStateTable(nt_lookup, closures, k0, ord) ==
  StateLoop(NewStateTable, nt_lookup, closures, 1, k0, ord)

\* what check_ambiguities prints for a state and a lookahead
StateAmbiguity(i, terminal, state) ==
  [state |-> i, lookahead |-> terminal, actions |-> state.actions[terminal],
   common_actions |-> state.common_actions]

\* the sequences that list every member of a set once
Orderings(set) ==
  {s \in [1..Cardinality(set) -> set] :
     \A i, j \in 1..Cardinality(set) : s[i] = s[j] => i = j}

\* check_ambiguities, lines 364-371, for state i: state.actions is a HashMap,
\* whose entries come in any order; the entries that pass the test of line
\* 365 are printed in the order they come
CheckState(i, state) ==
  {[k \in 1..Len(order) |-> StateAmbiguity(i, order[k], state)] :
     order \in Orderings({t \in DOMAIN state.actions :
                            Len(state.actions[t]) + Len(state.common_actions)
                              > 1})}

RECURSIVE check_ambiguities_upto(_, _)
\* check_ambiguities for the first n states
check_ambiguities_upto(table, n) ==
  IF n = 0 THEN {<<>>}
  ELSE {a \o b : a \in check_ambiguities_upto(table, n - 1),
                 b \in CheckState(n - 1, table.states[n])}

\* check_ambiguities: the diagnostics it can print, in order
check_ambiguities(table) ==
  check_ambiguities_upto(table, Len(table.states))

\* lr_process(non_terminals, is_k0): the [table, diags] it can return
\* with
lr_process(ir, k0) ==
  UNION {UNION {
    LET filled == fill_out_automaton(NtLookup(ir), RootClosure(ir), <<>>,
                                     k0, o1).root
        set == recalculate_set(filled, <<>>, o2)
    IN IF UnableToFindState(set) THEN {}
       ELSE {[state_table |-> BuildStateTable(NtLookup(ir), set, k0, o3),
              diags |-> d] :
               d \in check_ambiguities(
                       BuildStateTable(NtLookup(ir), set, k0, o3))}
    : o2 \in KeyOrders, o3 \in KeyOrders} : o1 \in KeyOrders}

----------------------------------------------------------------------------
(* The pipeline of main(): process, then ll_process                        *)

\* the IR Parser::parse hands to main, for every grammar analysed
Init ==
  /\ nts \in {MakeIR(g) : g \in Grammars}
  /\ pc = "parsed"
  /\ diags = <<>>
  /\ first_run = <<>>
  /\ is_k0 = FALSE
  /\ root_closure = NewClosure
  /\ closure_set = <<>>
  /\ state_table = NewStateTable
  /\ first_table = NewStateTable
  /\ RecIdle
  /\ FrontIdle

\* process, line 153
Nullability ==
  /\ pc = "parsed"
  /\ nts' \in nullability(nts)
  /\ pc' = "nullability"
  /\ UNCHANGED <<diags, first_run, lr_vars, front_vars, rec_vars>>

\* process, lines 155-160
FirstSets ==
  /\ pc = "nullability"
  /\ nts' \in first_sets(nts, NullableInfo(nts))
  /\ pc' = "first_sets"
  /\ UNCHANGED <<diags, first_run, lr_vars, front_vars, rec_vars>>

\* process, line 161
FollowSets ==
  /\ pc = "first_sets"
  /\ nts' \in follow_sets(nts, NullableInfo(nts))
  /\ pc' = "follow_sets"
  /\ UNCHANGED <<diags, first_run, lr_vars, front_vars, rec_vars>>

\* process, line 162
PredictSets ==
  /\ pc = "follow_sets"
  /\ nts' = predict_sets(nts)
  /\ pc' = "predict_sets"
  /\ UNCHANGED <<diags, first_run, lr_vars, front_vars, rec_vars>>

\* process, line 163
FindAmbiguities ==
  /\ pc = "predict_sets"
  /\ diags' = diags \o Printed("process", find_ambiguities(nts))
  /\ pc' = "find_ambiguities"
  /\ UNCHANGED <<nts, first_run, lr_vars, front_vars, rec_vars>>

\* process, lines 165-179, and its return to main
ProcessTail ==
  /\ pc = "find_ambiguities"
  /\ nts' = StripEof(nts)
  /\ first_run' = nts'
  /\ pc' = "processed"
  /\ UNCHANGED <<diags, lr_vars, front_vars, rec_vars>>

\* ll_process, line 24
LLPredictSets ==
  /\ pc = "processed"
  /\ nts' = ll_predict_sets(nts)
  /\ pc' = "ll_predict_sets"
  /\ UNCHANGED <<diags, first_run, lr_vars, front_vars, rec_vars>>

\* ll_process, line 25, and its return to main
LLFindAmbiguities ==
  /\ pc = "ll_predict_sets"
  /\ diags' = diags \o Printed("ll_process", ll_find_ambiguities(nts))
  /\ pc' = "done"
  /\ UNCHANGED <<nts, first_run, lr_vars, front_vars, rec_vars>>

\* process called a second time, on the IR the first call populated
ProcessAgain ==
  /\ pc = "processed"
  /\ \E r \in process(nts) :
       /\ nts' = r.nts
       /\ diags' = diags \o Printed("process", r.diags)
  /\ pc' = "processed_again"
  /\ UNCHANGED <<first_run, lr_vars, front_vars, rec_vars>>

Next ==
  \/ Nullability
  \/ FirstSets
  \/ FollowSets
  \/ PredictSets
  \/ FindAmbiguities
  \/ ProcessTail
  \/ LLPredictSets
  \/ LLFindAmbiguities
  \/ ProcessAgain

Spec == Init /\ [][Next]_vars

----------------------------------------------------------------------------
(* lr_process on an analysed IR, in either mode                            *)

\* bound on the size of an enumerated grammar the automaton is built for
LRMaxSize == 5

\* names of the non-terminals of those grammars: one or two are defined
LRNames == <<"S", "A">>

\* no non-terminal lists the same alternative twice.  Items are compared
\* with ==, which needs an equality of Token that this version of scanner.rs
\* does not define; without repeated alternatives two items with equal
\* names and token values are the same item of the same production under
\* any such equality.
NoRepeatedAlternative(g) ==
  \A n \in 1..Len(g) :
    \A p, q \in 1..Len(g[n][2]) : g[n][2][p] = g[n][2][q] => p = q

\* grammars of the claims' examples
LRExamples ==
  { \* S ::= 'a' ;
    << <<"S", << <<Term("a")>> >> >> >>,
    \* S ::= A 'c' ; A ::= 'a' | 'a' 'b' ;
    << <<"S", << <<Id("A"), Term("c")>> >> >>,
       <<"A", << <<Term("a")>>, <<Term("a"), Term("b")>> >> >> >>,
    \* S ::= S 'x' | 'y' ;
    << <<"S", << <<Id("S"), Term("x")>>, <<Term("y")>> >> >> >>,
    \* S ::= 'x' A | 'y' ; A ::= S 'x' | S 'y' ;
    << <<"S", << <<Term("x"), Id("A")>>, <<Term("y")>> >> >>,
       <<"A", << <<Id("S"), Term("x")>>, <<Id("S"), Term("y")>> >> >> >>,
    \* S ::= A | B ; A ::= 'x' ; B ::= 'x' ;
    << <<"S", << <<Id("A")>>, <<Id("B")>> >> >>,
       <<"A", << <<Term("x")>> >> >>,
       <<"B", << <<Term("x")>> >> >> >>,
    \* S ::= A | B | 'x' C ; A ::= 'a' ; B ::= 'a' ; C ::= B | A ;
    << <<"S", << <<Id("A")>>, <<Id("B")>>, <<Term("x"), Id("C")>> >> >>,
       <<"A", << <<Term("a")>> >> >>,
       <<"B", << <<Term("a")>> >> >>,
       <<"C", << <<Id("B")>>, <<Id("A")>> >> >> >> }

LRGrammars ==
  {g \in UNION {GrammarsFrom(SubSeq(LRNames, 1, k), 1, LRMaxSize) :
                  k \in 1..Len(LRNames)} : NoRepeatedAlternative(g)}
    \cup LRExamples

\* the IR process() leaves, for every grammar, and the mode asked for
InitLR ==
  /\ \E g \in LRGrammars : \E r \in process(MakeIR(g)) : nts = r.nts
  /\ is_k0 \in BOOLEAN
  /\ pc = "lr_process"
  /\ diags = <<>>
  /\ first_run = <<>>
  /\ root_closure = NewClosure
  /\ closure_set = <<>>
  /\ state_table = NewStateTable
  /\ first_table = NewStateTable
  /\ RecIdle
  /\ FrontIdle

\* lr_process, lines 145-168
Augment ==
  /\ pc = "lr_process"
  /\ root_closure' = RootClosure(nts)
  /\ closure_set' = <<>>
  /\ pc' = "augmented"
  /\ UNCHANGED <<front_vars, rec_vars, nts, diags, first_run, is_k0, state_table, first_table>>

\* lr_process, line 170
FillOutAutomaton ==
  /\ pc = "augmented"
  /\ \E ord \in KeyOrders :
       LET r == fill_out_automaton(NtLookup(nts), root_closure, closure_set,
                                   is_k0, ord)
       IN /\ root_closure' = r.root
          /\ closure_set' = r.closure_set
  /\ pc' = "filled"
  /\ UNCHANGED <<front_vars, rec_vars, nts, diags, first_run, is_k0, state_table, first_table>>

\* lr_process, lines 171-172
RecalculateSet ==
  /\ pc = "filled"
  /\ \E ord \in KeyOrders :
       closure_set' = recalculate_set(root_closure, <<>>, ord)
  /\ pc' = "recalculated"
  /\ UNCHANGED <<front_vars, rec_vars, nts, diags, first_run, is_k0, root_closure, state_table,
                 first_table>>

\* lr_process, lines 174-237
FillStateTable ==
  /\ pc = "recalculated"
  /\ IF UnableToFindState(closure_set)
     THEN /\ pc' = "panic"
          /\ UNCHANGED state_table
     ELSE /\ \E ord \in KeyOrders :
               state_table' =
                 BuildStateTable(NtLookup(nts), closure_set, is_k0, ord)
          /\ pc' = "state_table"
  /\ UNCHANGED <<front_vars, rec_vars, nts, diags, first_run, is_k0, root_closure, closure_set,
                 first_table>>

\* lr_process, lines 239-241
CheckAmbiguities ==
  /\ pc = "state_table"
  /\ \E d \in check_ambiguities(state_table) : diags' = diags \o d
  /\ pc' = "lr_done"
  /\ UNCHANGED <<front_vars, rec_vars, nts, first_run, is_k0, root_closure, closure_set,
                 state_table, first_table>>

\* lr_process called a second time, on the same IR and in the same mode
LRProcessAgain ==
  /\ pc = "lr_done"
  /\ \E r \in lr_process(nts, is_k0) :
       /\ state_table' = r.state_table
       /\ diags' = diags \o r.diags
  /\ first_table' = state_table
  /\ pc' = "lr_again"
  /\ UNCHANGED <<front_vars, rec_vars, nts, first_run, is_k0, root_closure, closure_set>>

NextLR ==
  \/ Augment
  \/ FillOutAutomaton
  \/ RecalculateSet
  \/ FillStateTable
  \/ CheckAmbiguities
  \/ LRProcessAgain

SpecLR == InitLR /\ [][NextLR]_vars

----------------------------------------------------------------------------
(* The traversals of process(), call by call                               *)

\* bound on the depth of the call stack of a traversal
MaxDepth == 12

RECURSIVE NullProdsCalls(_, _, _, _, _)
\* nullability, lines 248-254: the calls of nullable_dfs made for the
\* productions of one non-terminal, from p, as [nullable_info, graph, start]
NullProdsCalls(info, graph, nt, p, is_nullable) ==
  IF p > Len(nt.productions) \/ is_nullable THEN {}
  ELSE
    LET prod_graph == ProdGraph(graph, nt.name, nt.productions[p].list) IN
    {[nullable_info |-> info, graph |-> prod_graph, start |-> nt.name]} \cup
    UNION {NullProdsCalls(r.info, graph, nt, p + 1, r.info[nt.name]) :
             r \in nullable_dfs(info, prod_graph, nt.name, {})}

RECURSIVE NullNtsCalls(_, _, _, _)
\* nullability, lines 216-261: the calls of nullable_dfs made from
\* non-terminal n on
NullNtsCalls(info, graph, ir, n) ==
  IF n > Len(ir) THEN {}
  ELSE IF ir[n].is_nullable THEN NullNtsCalls(info, graph, ir, n + 1)
  ELSE NullProdsCalls(info, graph, ir[n], 1, FALSE) \cup
       UNION {NullNtsCalls(r.info, graph,
                           [ir EXCEPT ![n].is_nullable = r.is_nullable],
                           n + 1) :
                r \in NullProds(info, graph, ir[n], 1, FALSE)}

\* the calls of nullable_dfs that nullability(ir) makes
NullableDfsCalls(ir) ==
  LET r == NullGraphNts(EmptyGraph, ir, 1)
  IN NullNtsCalls(NullableInfo(r.nts), r.graph, r.nts, 1)

\* first_sets, lines 289-292: the calls of first_n_follow_set_dfs, as
\* [graph, start]
FirstDfsCalls(ir, nullable_info) ==
  {[graph |-> FirstGraph(EmptyGraph, ir, 1, nullable_info),
    start |-> ir[n].name] : n \in 1..Len(ir)}

\* follow_sets, lines 414-417: the calls of first_n_follow_set_dfs
FollowDfsCalls(ir, nullable_info) ==
  {[graph |-> FollowGraph(AddKey(EmptyGraph, "EOF"), ir, 1, nullable_info),
    start |-> ir[n].name] : n \in 1..Len(ir)}

\* the calls of first_n_follow_set_dfs that process(ir) makes
SetDfsCalls(ir) ==
  UNION {FirstDfsCalls(a, NullableInfo(a)) \cup
         UNION {FollowDfsCalls(b, NullableInfo(a)) :
                  b \in first_sets(a, NullableInfo(a))} :
           a \in nullability(ir)}

\* the frame of a call of nullable_dfs or first_n_follow_set_dfs: the node
\* it was called for, the adjacent nodes its loop has not yet come to, and
\* the local is_null
Frame(graph, start) == [start |-> start, rest |-> graph[start], is_null |-> TRUE]

\* a change of Past: the loop stays at adj
Past_Stay(frame, adj) == frame

\* the frame on top of the stack with its loop moved past adj
Past(frame, adj) == [frame EXCEPT !.rest = @ \ {adj}]

\* the stack with its top frame replaced
WithTop(stack, frame) == [stack EXCEPT ![Len(stack)] = frame]

\* no automaton is being built
LRIdle ==
  /\ is_k0 = FALSE
  /\ root_closure = NewClosure
  /\ closure_set = <<>>
  /\ state_table = NewStateTable
  /\ first_table = NewStateTable

\* a traversal process() starts for a grammar: the callee has pushed its
\* start node on visited and is about to enter its loop
InitDfs ==
  /\ \E g \in Grammars :
       \/ \E c \in NullableDfsCalls(MakeIR(g)) :
            /\ rec_kind = "nullable_dfs"
            /\ rec_args = [graph |-> c.graph, nullable_info |-> c.nullable_info,
                           first_set |-> {}, visited |-> {c.start}]
            /\ rec_stack = <<Frame(c.graph, c.start)>>
       \/ \E c \in SetDfsCalls(MakeIR(g)) :
            /\ rec_kind = "first_n_follow_set_dfs"
            /\ rec_args = [graph |-> c.graph, nullable_info |-> <<>>,
                           first_set |-> {}, visited |-> {c.start}]
            /\ rec_stack = <<Frame(c.graph, c.start)>>
  /\ nts = <<>>
  /\ pc = "traversal"
  /\ diags = <<>>
  /\ first_run = <<>>
  /\ LRIdle
  /\ FrontIdle

\* lines 109-111 and 140-142: the loop comes to a node that is visited
DfsSkip ==
  /\ rec_stack # <<>>
  /\ \E adj \in rec_stack[Len(rec_stack)].rest :
       /\ (adj.key \in rec_args.visited)
       /\ rec_stack' = WithTop(rec_stack, Past(rec_stack[Len(rec_stack)], adj))
  /\ UNCHANGED <<nts, pc, diags, first_run, lr_vars, front_vars, rec_kind, rec_args>>

\* nullable_dfs, lines 113-116: the loop comes to a terminal and breaks
DfsBreak ==
  /\ rec_kind = "nullable_dfs"
  /\ rec_stack # <<>>
  /\ \E adj \in rec_stack[Len(rec_stack)].rest :
       /\ ~(adj.key \in rec_args.visited)
       /\ adj.is_term
       /\ rec_stack' = WithTop(rec_stack,
                               [rec_stack[Len(rec_stack)] EXCEPT
                                  !.rest = {}, !.is_null = FALSE])
  /\ UNCHANGED <<nts, pc, diags, first_run, lr_vars, front_vars, rec_kind, rec_args>>

\* lines 118 and 144-148: the recursive call for a node not visited, up to
\* the callee's entry into its loop (lines 102-106: nullable_dfs returns at
\* once for a node known to be nullable)
DfsCall ==
  /\ rec_stack # <<>>
  /\ Len(rec_stack) < MaxDepth
  /\ \E adj \in rec_stack[Len(rec_stack)].rest :
       LET caller == Past(rec_stack[Len(rec_stack)], adj) IN
       /\ ~(adj.key \in rec_args.visited)
       /\ rec_kind = "nullable_dfs" => ~adj.is_term
       /\ rec_args' =
            [rec_args EXCEPT
               !.visited = @ \cup {adj.key},
               !.first_set =
                  IF rec_kind = "first_n_follow_set_dfs" /\ adj.is_term
                  THEN @ \cup {adj.key} ELSE @]
       /\ rec_stack' =
            IF /\ rec_kind = "nullable_dfs"
               /\ adj.key \in DOMAIN rec_args.nullable_info
               /\ rec_args.nullable_info[adj.key]
            THEN WithTop(rec_stack, caller)
            ELSE Append(WithTop(rec_stack, caller),
                        Frame(rec_args.graph, adj.key))
  /\ UNCHANGED <<nts, pc, diags, first_run, lr_vars, front_vars, rec_kind>>

\* lines 123-125 and 120-122: the loop is over; nullable_dfs records is_null
\* for its node and its caller looks the node up
DfsReturn ==
  /\ rec_stack # <<>>
  /\ rec_stack[Len(rec_stack)].rest = {}
  /\ LET callee == rec_stack[Len(rec_stack)]
         info == IF /\ rec_kind = "nullable_dfs"
                    /\ callee.start \in DOMAIN rec_args.nullable_info
                 THEN [rec_args.nullable_info EXCEPT
                         ![callee.start] = callee.is_null]
                 ELSE rec_args.nullable_info
         callers == SubSeq(rec_stack, 1, Len(rec_stack) - 1)
     IN /\ rec_args' = [rec_args EXCEPT !.nullable_info = info]
        /\ rec_stack' =
             IF callers = <<>> \/ rec_kind # "nullable_dfs" THEN callers
             ELSE WithTop(callers,
                          [callers[Len(callers)] EXCEPT
                             !.is_null = @ /\ info[callee.start]])
  /\ UNCHANGED <<nts, pc, diags, first_run, lr_vars, front_vars, rec_kind>>

NextDfs ==
  \/ DfsSkip
  \/ DfsBreak
  \/ DfsCall
  \/ DfsReturn

\* every call that can take a step does take it
SpecDfs == InitDfs /\ [][NextDfs]_vars /\ WF_vars(NextDfs)

----------------------------------------------------------------------------
(* The recursions of lr_process(), call by call                            *)

RECURSIVE SubClosure(_, _)
\* the closure reached from root over the transitions named by path: the
\* `root` a nested call of fill_out_automaton holds
SubClosure(root, path) ==
  IF path = <<>> THEN root
  ELSE SubClosure(root.transitions[Head(path)], Tail(path))

RECURSIVE WithSubClosure(_, _, _)
\* root after the nested call has written clo through its &mut reference
WithSubClosure(root, path, clo) ==
  IF path = <<>> THEN clo
  ELSE [root EXCEPT !.transitions[Head(path)] =
                       WithSubClosure(@, Tail(path), clo)]

\* a change of AlreadyInSet: no closure is ever found in the set
AlreadyInSet_Never(set, clo) == FALSE

\* fill_out_automaton, line 247: !can_append_to_set(closure_set, root)
AlreadyInSet(set, clo) == ~can_append_to_set(set, clo)

\* the frame of a call with its loop moved to the next element
Advance(frame) == [frame EXCEPT !.rest = Tail(@)]

\* the frame of a call of fill_out_automaton for the closure at path, inside
\* closure(): the loop over the initial productions is about to run
ClosureFrame(root, path) ==
  [phase |-> "closure", path |-> path, rest |-> SubClosure(root, path).prods]

\* lr_process, line 169: fill_out_automaton is called for the root closure
\* of an analysed grammar with an empty closure set, in either mode
InitLRRec ==
  /\ \E g \in LRGrammars : \E r \in process(MakeIR(g)) : nts = r.nts
  /\ is_k0 \in BOOLEAN
  /\ rec_kind = "fill_out_automaton"
  /\ rec_args = [root |-> RootClosure(nts), closure_set |-> <<>>,
                 seen_nts |-> {}, production_set |-> <<>>]
  /\ rec_stack = <<ClosureFrame(RootClosure(nts), <<>>)>>
  /\ pc = "recursion"
  /\ diags = <<>>
  /\ first_run = <<>>
  /\ root_closure = NewClosure
  /\ closure_set = <<>>
  /\ state_table = NewStateTable
  /\ first_table = NewStateTable
  /\ FrontIdle

\* closure, lines 339-341, and production_closure, lines 329-332 and
\* 301-328: the call for the next item, up to the callee's return or its
\* entry into its own loop
ProductionClosureCall ==
  /\ rec_kind = "fill_out_automaton"
  /\ rec_stack # <<>>
  /\ Len(rec_stack) < MaxDepth
  /\ rec_stack[Len(rec_stack)].phase \in {"closure", "production_closure"}
  /\ rec_stack[Len(rec_stack)].rest # <<>>
  /\ LET nt_lookup == NtLookup(nts)
         caller == rec_stack[Len(rec_stack)]
         production == Head(caller.rest)
         pushed == Append(rec_args.production_set, production)
         returned == WithTop(rec_stack, Advance(caller))
     IN IF ~can_append_to_production_set(rec_args.production_set, production)
        THEN /\ rec_stack' = returned
             /\ UNCHANGED rec_args
        ELSE IF \/ production.will_match = <<>>
                \/ Head(production.will_match).value \notin DOMAIN nt_lookup
        THEN /\ rec_stack' = returned
             /\ rec_args' = [rec_args EXCEPT !.production_set = pushed]
        ELSE
          LET nt == nt_lookup[Head(production.will_match).value]
              followers == Followers(nt_lookup, production, is_k0)
          IN IF nt.name \in rec_args.seen_nts
             THEN /\ rec_stack' = returned
                  /\ rec_args' =
                       [rec_args EXCEPT
                          !.production_set =
                             ExtendPredictSets(pushed, nt.name, followers)]
             ELSE /\ rec_stack' =
                       Append(returned,
                              [phase |-> "production_closure", path |-> <<>>,
                               rest |->
                                 [p \in 1..Len(nt.productions) |->
                                    NewContextualProduction(
                                      nt.name, nt.productions[p], followers)]])
                  /\ rec_args' =
                       [rec_args EXCEPT
                          !.seen_nts = @ \cup {nt.name},
                          !.production_set = pushed]
  /\ UNCHANGED <<nts, pc, diags, first_run, lr_vars, front_vars, rec_kind>>

\* fill_out_automaton, lines 245-254: closure() is over; the call returns
\* when the closure is in the set already, and otherwise computes the goto
\* targets, appends the closure and enters the loop over its transitions
FillClosed ==
  /\ rec_kind = "fill_out_automaton"
  /\ rec_stack # <<>>
  /\ rec_stack[Len(rec_stack)].phase = "closure"
  /\ rec_stack[Len(rec_stack)].rest = <<>>
  /\ \E ord \in KeyOrders :
       LET path == rec_stack[Len(rec_stack)].path
           closed == [SubClosure(rec_args.root, path) EXCEPT
                        !.prods = rec_args.production_set]
           gone == goto(closed)
       IN IF AlreadyInSet(rec_args.closure_set, closed)
          THEN /\ rec_args' = [rec_args EXCEPT
                                 !.root = WithSubClosure(@, path, closed)]
               /\ rec_stack' = SubSeq(rec_stack, 1, Len(rec_stack) - 1)
          ELSE /\ rec_args' = [rec_args EXCEPT
                                 !.root = WithSubClosure(@, path, gone),
                                 !.closure_set = Append(@, gone)]
               /\ rec_stack' =
                    WithTop(rec_stack,
                            [phase |-> "transitions", path |-> path,
                             rest |-> KeysOf(gone.transitions, ord)])
  /\ UNCHANGED <<nts, pc, diags, first_run, lr_vars, front_vars, rec_kind>>

\* fill_out_automaton, lines 254-256 and 245, and closure, lines 336-338:
\* the call for the next transition, up to closure's loop over the initial
\* productions of the target
FillCall ==
  /\ rec_kind = "fill_out_automaton"
  /\ rec_stack # <<>>
  /\ Len(rec_stack) < MaxDepth
  /\ rec_stack[Len(rec_stack)].phase = "transitions"
  /\ rec_stack[Len(rec_stack)].rest # <<>>
  /\ LET caller == rec_stack[Len(rec_stack)]
         path == Append(caller.path, Head(caller.rest))
     IN /\ rec_args' = [rec_args EXCEPT
                          !.seen_nts = {}, !.production_set = <<>>]
        /\ rec_stack' = Append(WithTop(rec_stack, Advance(caller)),
                               ClosureFrame(rec_args.root, path))
  /\ UNCHANGED <<nts, pc, diags, first_run, lr_vars, front_vars, rec_kind>>

\* lines 256-257 and 332-333: the loop of the innermost call is over
LRRecReturn ==
  /\ rec_kind = "fill_out_automaton"
  /\ rec_stack # <<>>
  /\ rec_stack[Len(rec_stack)].phase \in {"transitions", "production_closure"}
  /\ rec_stack[Len(rec_stack)].rest = <<>>
  /\ rec_stack' = SubSeq(rec_stack, 1, Len(rec_stack) - 1)
  /\ UNCHANGED <<nts, pc, diags, first_run, lr_vars, front_vars, rec_kind, rec_args>>

NextLRRec ==
  \/ ProductionClosureCall
  \/ FillClosed
  \/ FillCall
  \/ LRRecReturn

\* every call that can take a step does take it
SpecLRRec == InitLRRec /\ [][NextLRRec]_vars /\ WF_vars(NextLRRec)

----------------------------------------------------------------------------
(* The scanner: scanner.rs                                                 *)

\* bound on the number of characters of a grammar text
MaxText == 5

\* the characters grammar texts are written with
Chars == {"a", " ", "\n", ";", ":", "=", "'", "/"}

\* char::is_whitespace, char::is_alphabetic and char::is_digit(10) on Chars
IsWhitespace(c) == c \in {" ", "\n", "\t", "\r"}
IsAlphabetic(c) == c \in {"a"}
IsDigit(c) == c \in {"0", "1", "2", "3", "4", "5", "6", "7", "8", "9"}

\* the texts scanned: every sequence of at most MaxText characters
Texts == UNION {[1..n -> Chars] : n \in 0..MaxText}

\* the whitespace appended to a text
Whitespace == {<<" ">>, <<"\n">>, <<" ", "\n">>}

\* Scanner::new, with the text read from the file
NewScanner(file) ==
  [file |-> file, next_char |-> 0, tokens |-> <<>>, seen_newlines |-> 0,
   last_seen_newline_ndx |-> -1]

\* Result<_, ScanError>: Ok carries the scanner as the call leaves it (or
\* the tokens scan returns), Err the error
Ok(value) == <<"Ok", value>>
NoMoreChars == <<"Err", "NoMoreChars">>
UnexpectedChar(expected, saw) == <<"Err", "UnexpectedChar", expected, saw>>
IsOk(result) == result # <<>> /\ result[1] = "Ok"

\* Scanner::has_next
has_next(self) == self.next_char < Len(self.file)

\* Scanner::current: Ok carries the character
current(self) ==
  IF ~has_next(self) THEN NoMoreChars ELSE Ok(self.file[self.next_char + 1])

\* Scanner::match_char
match_char(self, expected) ==
  IF ~has_next(self) THEN NoMoreChars
  ELSE IF self.file[self.next_char + 1] # expected
  THEN UnexpectedChar(expected, self.file[self.next_char + 1])
  ELSE Ok([self EXCEPT !.next_char = @ + 1])

\* Scanner::index_to_coord
index_to_coord(self, index) ==
  [line_num |-> self.seen_newlines + 1,
   col |-> index - self.last_seen_newline_ndx]

\* lines 186-189 and 171-172: a newline is counted before it is matched
SeeNewline(self) ==
  [self EXCEPT !.seen_newlines = @ + 1, !.last_seen_newline_ndx = self.next_char]

RECURSIVE whitespace(_)
\* Scanner::whitespace
whitespace(self) ==
  IF ~IsOk(current(self)) THEN current(self)
  ELSE IF ~IsWhitespace(current(self)[2]) THEN Ok(self)
  ELSE LET seen == IF current(self)[2] = "\n" THEN SeeNewline(self) ELSE self
       IN whitespace(match_char(seen, current(self)[2])[2])

RECURSIVE comment_loop(_)
\* Scanner::comment, lines 166-177
comment_loop(self) ==
  IF has_next(self) /\ current(self)[2] # "\n"
  THEN comment_loop(match_char(self, current(self)[2])[2])
  ELSE IF has_next(self) /\ current(self)[2] = "\n"
  THEN match_char(SeeNewline(self), "\n")
  ELSE IF ~IsOk(current(self)) THEN current(self)
  ELSE UnexpectedChar("\n", current(self)[2])

\* Scanner::comment
comment(self) ==
  IF ~IsOk(match_char(self, "/")) THEN match_char(self, "/")
  ELSE IF ~IsOk(match_char(match_char(self, "/")[2], "/"))
  THEN match_char(match_char(self, "/")[2], "/")
  ELSE comment_loop(match_char(match_char(self, "/")[2], "/")[2])

RECURSIVE identifier_loop(_)
\* Scanner::identifier, lines 203-205
identifier_loop(self) ==
  IF ~IsOk(current(self)) THEN current(self)
  ELSE IF \/ current(self)[2] = "_"
          \/ IsAlphabetic(current(self)[2])
          \/ IsDigit(current(self)[2])
  THEN identifier_loop(match_char(self, current(self)[2])[2])
  ELSE Ok(self)

\* Scanner::identifier
identifier(self) ==
  IF ~IsOk(current(self)) THEN current(self)
  ELSE IF current(self)[2] = "_" \/ IsAlphabetic(current(self)[2])
  THEN identifier_loop(match_char(self, current(self)[2])[2])
  ELSE identifier_loop(self)

\* Scanner::literal, lines 213-219 and 229-237: an opening or closing quote
Quote(self) ==
  IF ~IsOk(current(self)) THEN current(self)
  ELSE IF current(self)[2] = "\"" THEN match_char(self, "\"")
  ELSE IF current(self)[2] = "'" THEN match_char(self, "'")
  ELSE UnexpectedChar("\"", current(self)[2])

RECURSIVE literal_loop(_)
\* Scanner::literal, lines 221-237
literal_loop(self) ==
  IF ~IsOk(current(self)) THEN current(self)
  ELSE IF current(self)[2] # "\"" /\ current(self)[2] # "'"
  THEN IF current(self)[2] = "\n" THEN UnexpectedChar("\"", "\n")
       ELSE literal_loop(match_char(self, current(self)[2])[2])
  ELSE Quote(self)

\* Scanner::literal
literal(self) ==
  IF ~IsOk(Quote(self)) THEN Quote(self) ELSE literal_loop(Quote(self)[2])

\* Scanner::scan, lines 87-95: either ':' or '::=' is an equals token
Equals(self) ==
  LET one == match_char(self, ":") IN
  IF ~IsOk(one) THEN one
  ELSE IF ~IsOk(current(one[2])) THEN current(one[2])
  ELSE IF current(one[2])[2] # ":" THEN one
  ELSE LET two == match_char(one[2], ":") IN
       IF ~IsOk(two) THEN two ELSE match_char(two[2], "=")

\* Scanner::scan, lines 81-101: the kind of the token a character starts
\* and the function that scans it
KindOf(c) ==
  IF c = "_" \/ IsAlphabetic(c) THEN "ID"
  ELSE IF c = "\"" \/ c = "'" THEN "TERM"
  ELSE IF c = ":" THEN "EQUALS"
  ELSE IF c = ";" \/ c = "." THEN "END"
  ELSE ""

Lexeme(self, kind) ==
  IF kind = "ID" THEN identifier(self)
  ELSE IF kind = "TERM" THEN literal(self)
  ELSE IF kind = "EQUALS" THEN Equals(self)
  ELSE match_char(self, current(self)[2])

\* Scanner::scan, lines 106-112 and 115-119: the token pushed
ScannedToken(self, kind, from, to) ==
  [kind |-> kind, value |-> SubSeq(self.file, from + 1, to),
   span |-> [start |-> index_to_coord(self, from),
             end |-> index_to_coord(self, to)]]

\* the scanner is handed a text
InitScan ==
  /\ scanner \in {NewScanner(file) : file \in Texts}
  /\ scan_result = <<>>
  /\ first_scan = <<>>
  /\ parser = <<>>
  /\ parse_result = <<>>
  /\ nts = <<>>
  /\ pc = "scan"
  /\ diags = <<>>
  /\ first_run = <<>>
  /\ LRIdle
  /\ RecIdle

\* Scanner::scan, lines 74-80: whitespace or a comment is passed over
ScanSkip ==
  /\ pc = "scan"
  /\ scan_result = <<>>
  /\ has_next(scanner)
  /\ LET c == current(scanner)[2]
         r == IF IsWhitespace(c) THEN whitespace(scanner) ELSE comment(scanner)
     IN /\ IsWhitespace(c) \/ c = "/"
        /\ IF IsOk(r)
           THEN scanner' = r[2] /\ UNCHANGED scan_result
           ELSE scan_result' = r /\ UNCHANGED scanner
  /\ UNCHANGED <<nts, pc, diags, first_run, lr_vars, rec_vars, first_scan,
                 parser, parse_result>>

\* Scanner::scan, lines 81-112: a token is scanned and pushed
ScanToken ==
  /\ pc = "scan"
  /\ scan_result = <<>>
  /\ has_next(scanner)
  /\ LET kind == KindOf(current(scanner)[2])
         r == Lexeme(scanner, kind)
     IN /\ kind # ""
        /\ IF IsOk(r)
           THEN /\ scanner' =
                     [r[2] EXCEPT
                        !.tokens =
                           Append(@, ScannedToken(r[2], kind, scanner.next_char,
                                                  r[2].next_char))]
                /\ UNCHANGED scan_result
           ELSE scan_result' = r /\ UNCHANGED scanner
  /\ UNCHANGED <<nts, pc, diags, first_run, lr_vars, rec_vars, first_scan,
                 parser, parse_result>>

\* Scanner::scan, lines 102-104: no token starts with the character
ScanUnexpected ==
  /\ pc = "scan"
  /\ scan_result = <<>>
  /\ has_next(scanner)
  /\ LET c == current(scanner)[2]
     IN /\ ~IsWhitespace(c) /\ c # "/" /\ KindOf(c) = ""
        /\ scan_result' = UnexpectedChar("_", c)
  /\ UNCHANGED <<nts, pc, diags, first_run, lr_vars, rec_vars, scanner,
                 first_scan, parser, parse_result>>

\* Scanner::scan, lines 115-123: the text is used up; the EOF token is
\* pushed and the tokens are returned
ScanEof ==
  /\ pc = "scan"
  /\ scan_result = <<>>
  /\ ~has_next(scanner)
  /\ scanner' = [scanner EXCEPT
                   !.tokens = Append(@, ScannedToken(scanner, "EOF",
                                                     scanner.next_char,
                                                     scanner.next_char))]
  /\ scan_result' = Ok(scanner'.tokens)
  /\ UNCHANGED <<nts, pc, diags, first_run, lr_vars, rec_vars, first_scan,
                 parser, parse_result>>

\* a text that was scanned successfully is scanned again with whitespace
\* appended at its end
ScanWithWhitespaceAppended ==
  /\ pc = "scan"
  /\ IsOk(scan_result)
  /\ first_scan = <<>>
  /\ \E ws \in Whitespace : scanner' = NewScanner(scanner.file \o ws)
  /\ first_scan' = scan_result
  /\ scan_result' = <<>>
  /\ UNCHANGED <<nts, pc, diags, first_run, lr_vars, rec_vars, parser,
                 parse_result>>

NextScan ==
  \/ ScanSkip
  \/ ScanToken
  \/ ScanUnexpected
  \/ ScanEof
  \/ ScanWithWhitespaceAppended

SpecScan == InitScan /\ [][NextScan]_vars

----------------------------------------------------------------------------
(* The parser: parser.rs                                                   *)

\* bound on the number of tokens the scanner hands over before the EOF token
MaxTokens == 7

\* the tokens the scanner hands over, without their spans
ScannerTokens ==
  {Id("S"), Id("A"), Term("'x'"), Token("EQUALS", "::="), Token("END", ";")}

\* what Scanner::scan returns: tokens followed by the one EOF token
TokenSeqs ==
  {tokens \o <<Token("EOF", "")>> :
     tokens \in UNION {[1..n -> ScannerTokens] : n \in 0..MaxTokens}}

\* Parser::new
NewParser(tokens) ==
  [scanner |-> tokens, current_ndx |-> 0, productions |-> [k \in {} |-> <<>>]]

\* ParserError::UnexpectedToken
UnexpectedToken(token, expected) == <<"Err", "UnexpectedToken", token, expected>>

\* Parser::current_token, at index ndx; Parser::current is its kind
current_token(tokens, ndx) == tokens[ndx + 1]

RECURSIVE token_list(_, _)
\* Parser::token_list (with Parser::token) from index ndx: Ok carries the
\* index reached and the production's token list
token_list(tokens, ndx) ==
  IF current_token(tokens, ndx).kind \in {"ID", "TERM"}
  THEN LET r == token_list(tokens, ndx + 1) IN
       IF ~IsOk(r) THEN r
       ELSE Ok([ndx |-> r[2].ndx,
                value |-> <<current_token(tokens, ndx)>> \o r[2].value])
  ELSE IF current_token(tokens, ndx).kind \in {"|", "END"}
  THEN Ok([ndx |-> ndx, value |-> <<>>])
  ELSE UnexpectedToken(current_token(tokens, ndx), <<"|", "END", "ID", "TERM">>)

RECURSIVE opt_alternation(_, _)
\* Parser::opt_alternation: Ok carries the index reached and the productions
opt_alternation(tokens, ndx) ==
  IF current_token(tokens, ndx).kind = "|"
  THEN LET prod == token_list(tokens, ndx + 1) IN
       IF ~IsOk(prod) THEN prod
       ELSE LET list == opt_alternation(tokens, prod[2].ndx) IN
            IF ~IsOk(list) THEN list
            ELSE Ok([ndx |-> list[2].ndx,
                     value |-> <<NewProduction(prod[2].value)>> \o list[2].value])
  ELSE IF current_token(tokens, ndx).kind = "END"
  THEN Ok([ndx |-> ndx, value |-> <<>>])
  ELSE UnexpectedToken(current_token(tokens, ndx), <<"|", "END">>)

\* Parser::rhs
rhs(tokens, ndx) ==
  IF current_token(tokens, ndx).kind \in {"|", "END", "ID", "TERM"}
  THEN LET prod == token_list(tokens, ndx) IN
       IF ~IsOk(prod) THEN prod
       ELSE LET list == opt_alternation(tokens, prod[2].ndx) IN
            IF ~IsOk(list) THEN list
            ELSE Ok([ndx |-> list[2].ndx,
                     value |-> <<NewProduction(prod[2].value)>> \o list[2].value])
  ELSE UnexpectedToken(current_token(tokens, ndx), <<"|", "END", "ID", "TERM">>)

\* Parser::production, called with the current token of kind ID: Ok carries
\* the parser as the call leaves it
production(self) ==
  LET tokens == self.scanner
      nt == current_token(tokens, self.current_ndx)
  IN IF current_token(tokens, self.current_ndx + 1).kind # "EQUALS"
     THEN UnexpectedToken(current_token(tokens, self.current_ndx + 1),
                          <<"EQUALS">>)
     ELSE LET prod_list == rhs(tokens, self.current_ndx + 2) IN
          IF ~IsOk(prod_list) THEN prod_list
          ELSE Ok([self EXCEPT
                     !.current_ndx = prod_list[2].ndx + 1,
                     !.productions =
                        [k \in DOMAIN @ \cup {nt.value} |->
                           IF k = nt.value
                           THEN (IF k \in DOMAIN @ THEN @[k] ELSE <<>>)
                                  \o prod_list[2].value
                           ELSE @[k]]])

RECURSIVE nt_order(_, _, _)
\* Parser::parse, lines 65-74: the names before an EQUALS token, each once,
\* from the i-th token on
nt_order(tokens, i, order) ==
  IF i > Len(tokens) THEN order
  ELSE LET prev == IF i = 1 THEN tokens[1] ELSE tokens[i - 1] IN
       nt_order(tokens, i + 1,
                IF /\ tokens[i].kind = "EQUALS"
                   /\ \A j \in 1..Len(order) : order[j] # prev.value
                THEN Append(order, prev.value) ELSE order)

\* a change of Sanitized: every token is kept as it is
Sanitized_Keep(productions, token) == token

\* Parser::parse, lines 84-92: an identifier that is no key of productions
\* becomes a terminal
Sanitized(productions, token) ==
  IF token.kind = "ID" /\ token.value \notin DOMAIN productions
  THEN [token EXCEPT !.kind = "TERM"] ELSE token

\* Parser::parse, lines 76-103: the non-terminals returned
ParsedNts(self) ==
  LET order == nt_order(self.scanner, 1, <<>>) IN
  [n \in 1..Len(order) |->
     NewNonTerminal(
       order[n], order[1] = order[n],
       [p \in 1..Len(self.productions[order[n]]) |->
          NewProduction(
            [t \in 1..Len(self.productions[order[n]][p].list) |->
               Sanitized(self.productions,
                         self.productions[order[n]][p].list[t])])])]

\* the parser is handed the tokens of a scan
InitParse ==
  /\ parser \in {NewParser(tokens) : tokens \in TokenSeqs}
  /\ parse_result = <<>>
  /\ scanner = <<>>
  /\ scan_result = <<>>
  /\ first_scan = <<>>
  /\ nts = <<>>
  /\ pc = "parse"
  /\ diags = <<>>
  /\ first_run = <<>>
  /\ LRIdle
  /\ RecIdle

\* Parser::bnf_file and Parser::production_list: a production is parsed
ParseProduction ==
  /\ pc = "parse"
  /\ parse_result = <<>>
  /\ current_token(parser.scanner, parser.current_ndx).kind = "ID"
  /\ IF IsOk(production(parser))
     THEN parser' = production(parser)[2] /\ UNCHANGED <<parse_result, nts>>
     ELSE parse_result' = production(parser) /\ UNCHANGED <<parser, nts>>
  /\ UNCHANGED <<pc, diags, first_run, lr_vars, rec_vars, scanner,
                 scan_result, first_scan>>

\* Parser::bnf_file, line 111, and Parser::production_list, line 123: the
\* current token starts no production and does not end the file
ParseUnexpected ==
  /\ pc = "parse"
  /\ parse_result = <<>>
  /\ LET kind == current_token(parser.scanner, parser.current_ndx).kind IN
     /\ kind # "ID"
     /\ kind = "EOF" => parser.current_ndx = 0
     /\ parse_result' =
          UnexpectedToken(current_token(parser.scanner, parser.current_ndx),
                          IF parser.current_ndx = 0 THEN <<"ID">>
                          ELSE <<"EOF", "ID">>)
  /\ UNCHANGED <<nts, pc, diags, first_run, lr_vars, rec_vars, scanner,
                 scan_result, first_scan, parser>>

\* Parser::production_list, line 120, and Parser::parse, lines 63-103: the
\* EOF token is matched and the non-terminals are returned
ParseEof ==
  /\ pc = "parse"
  /\ parse_result = <<>>
  /\ parser.current_ndx > 0
  /\ current_token(parser.scanner, parser.current_ndx).kind = "EOF"
  /\ parser' = [parser EXCEPT !.current_ndx = @ + 1]
  /\ parse_result' = Ok(ParsedNts(parser))
  /\ nts' = ParsedNts(parser)
  /\ UNCHANGED <<pc, diags, first_run, lr_vars, rec_vars, scanner,
                 scan_result, first_scan>>

NextParse ==
  \/ ParseProduction
  \/ ParseUnexpected
  \/ ParseEof

SpecParse == InitParse /\ [][NextParse]_vars

----------------------------------------------------------------------------
(* Reference notions the properties are stated with                        *)

\* the positions <<n, p, i>> of the tokens of the IR
Positions(ir) ==
  UNION {UNION {{<<n, p, i>> : i \in 1..Len(ir[n].productions[p].list)} :
                  p \in 1..Len(ir[n].productions)} :
           n \in 1..Len(ir)}

TokenAt(ir, t) == ir[t[1]].productions[t[2]].list[t[3]]

\* the tokens after position t in its production
Rest(ir, t) ==
  SubSeq(ir[t[1]].productions[t[2]].list, t[3] + 1,
         Len(ir[t[1]].productions[t[2]].list))

\* the terminal values occurring in productions
TermValues(ir) ==
  {TokenAt(ir, t).value : t \in {u \in Positions(ir) : TokenAt(ir, u).kind # "ID"}}

\* well-formed: names are distinct, every ID token names a non-terminal and
\* no terminal value, EOF included, is a non-terminal name
WellFormed(ir) ==
  /\ \A i, j \in 1..Len(ir) : ir[i].name = ir[j].name => i = j
  /\ "EOF" \notin Names(ir)
  /\ \A n \in 1..Len(ir) : \A p \in 1..Len(ir[n].productions) :
       \A i \in 1..Len(ir[n].productions[p].list) :
         LET tok == ir[n].productions[p].list[i] IN
         (tok.kind = "ID") <=> (tok.value \in Names(ir))

RECURSIVE DerivesEmpty(_, _)
\* the names of the non-terminals that derive the empty string: the least
\* set closed under "some production consists of members only"
DerivesEmpty(ir, known) ==
  LET more == {ir[n].name : n \in
                 {m \in 1..Len(ir) :
                    \E p \in 1..Len(ir[m].productions) :
                      \A i \in 1..Len(ir[m].productions[p].list) :
                        LET tok == ir[m].productions[p].list[i] IN
                        tok.kind = "ID" /\ tok.value \in known}}
  IN IF more \subseteq known THEN known ELSE DerivesEmpty(ir, known \cup more)

\* every token of the list is a non-terminal marked is_nullable
AllNullable(ir, list) ==
  \A i \in 1..Len(list) :
    list[i].kind = "ID" /\ Find(ir, list[i].value).is_nullable

\* one unfolding of the FIRST rule: the terminals t such that some production
\* of nt is X1..Xk with X1..X(i-1) nullable non-terminals and Xi the terminal
\* t or a non-terminal with t in first[Xi]
FirstRule(ir, nt, first) ==
  UNION {UNION {
     {t \in {prod.list[i].value} : prod.list[i].kind # "ID"} \cup
     (IF prod.list[i].kind = "ID" THEN first[prod.list[i].value] ELSE {})
       : i \in {k \in 1..Len(prod.list) :
                  AllNullable(ir, SubSeq(prod.list, 1, k - 1))}}
     : prod \in {nt.productions[p] : p \in 1..Len(nt.productions)}}

RECURSIVE FirstLeast(_, _)
\* the least solution of the FIRST rule, by iteration from first
FirstLeast(ir, first) ==
  LET next == [name \in Names(ir) |-> FirstRule(ir, Find(ir, name), first)]
  IN IF next = first THEN first ELSE FirstLeast(ir, next)

RECURSIVE FirstOfSeq(_, _)
\* FIRST of a token list, from the first_set and is_nullable fields
FirstOfSeq(ir, list) ==
  IF list = <<>> THEN {}
  ELSE IF Head(list).kind # "ID" THEN {Head(list).value}
  ELSE Find(ir, Head(list).value).first_set \cup
       (IF Find(ir, Head(list).value).is_nullable
        THEN FirstOfSeq(ir, Tail(list)) ELSE {})

\* two distinct productions of nt predict a common terminal
Clash(nt) ==
  \E p, q \in 1..Len(nt.productions) :
    /\ p # q
    /\ nt.productions[p].predict_set \cap nt.productions[q].predict_set # {}

\* the reports a caller had printed
PrintedBy(caller) ==
  {diags[k] : k \in {j \in 1..Len(diags) : diags[j].caller = caller}}

----------------------------------------------------------------------------
(* Properties                                                              *)

\* C1: after nullability() on a fresh well-formed IR, a non-terminal is
\* marked is_nullable if and only if it derives the empty string.
C1_NullableIffDerivesEmpty ==
  pc = "nullability" =>
    \A n \in 1..Len(nts) :
      nts[n].is_nullable <=> nts[n].name \in DerivesEmpty(nts, {})

\* C2: after first_sets(), t is in N.first_set if and only if some production
\* of N reaches t through a prefix of nullable non-terminals, directly or
\* through the first_set of the non-terminal after the prefix; the first_sets
\* are the least sets with that property.
C2_FirstSetsLeastSolution ==
  pc = "first_sets" =>
    LET first == [name \in Names(nts) |-> Find(nts, name).first_set] IN
    /\ \A n \in 1..Len(nts) : nts[n].first_set = FirstRule(nts, nts[n], first)
    /\ first = FirstLeast(nts, [name \in Names(nts) |-> {}])

\* C2 witness: a terminal entered a first_set through a nullable prefix and
\* the first_set of another non-terminal
C2_Witness ==
  /\ pc = "first_sets"
  /\ \E t \in Positions(nts) :
       /\ t[3] = 2
       /\ TokenAt(nts, t).kind = "ID"
       /\ TokenAt(nts, t).value # nts[t[1]].name
       /\ AllNullable(nts, SubSeq(nts[t[1]].productions[t[2]].list, 1, 1))
       /\ Find(nts, TokenAt(nts, t).value).first_set # {}
       /\ Find(nts, TokenAt(nts, t).value).first_set \subseteq nts[t[1]].first_set

C4_PredictIsFirstPlusFollow ==
  pc = "done" =>
    \A n \in 1..Len(nts) : \A p \in 1..Len(nts[n].productions) :
      LET prod == nts[n].productions[p] IN
      /\ prod.predict_set =
           FirstOfSeq(nts, prod.list) \cup
           (IF AllNullable(nts, prod.list) THEN nts[n].follow_set ELSE {})
      /\ prod.list = <<>> => prod.predict_set = nts[n].follow_set

\* C4 witness: the pipeline ended with a non-empty production of nullable
\* non-terminals whose predict_set took in a follow_set beyond its FIRST
C4_Witness ==
  /\ pc = "done"
  /\ \E n \in 1..Len(nts) : \E p \in 1..Len(nts[n].productions) :
       LET prod == nts[n].productions[p] IN
       /\ prod.list # <<>>
       /\ AllNullable(nts, prod.list)
       /\ FirstOfSeq(nts, prod.list) # {}
       /\ ~(nts[n].follow_set \subseteq FirstOfSeq(nts, prod.list))
       /\ \E q \in 1..Len(nts[n].productions) :
            /\ nts[n].productions[q].list # <<>>
            /\ ~AllNullable(nts, nts[n].productions[q].list)

\* C5: a find_ambiguities call prints a report naming N if and only if two
\* distinct productions of N have intersecting predict_sets, for the call in
\* process and for the call in ll_process.
C5_ReportIffPredictSetsIntersect ==
  /\ pc = "find_ambiguities" =>
       \A n \in 1..Len(nts) :
         (\E d \in PrintedBy("process") : d.nt = nts[n].name) <=> Clash(nts[n])
  /\ pc = "done" =>
       \A n \in 1..Len(nts) :
         (\E d \in PrintedBy("ll_process") : d.nt = nts[n].name) <=> Clash(nts[n])

\* C5 witness: one non-terminal has clashing productions and is reported,
\* another has two productions with disjoint predict_sets and is not
C5_Witness ==
  /\ pc = "done"
  /\ \E n, m \in 1..Len(nts) :
       /\ Clash(nts[n])
       /\ \E d \in PrintedBy("ll_process") : d.nt = nts[n].name
       /\ ~Clash(nts[m])
       /\ Len(nts[m].productions) >= 2
       /\ \A p \in 1..Len(nts[m].productions) :
            nts[m].productions[p].predict_set # {}
       /\ ~\E d \in PrintedBy("ll_process") : d.nt = nts[m].name

\* C6: in one run of process then ll_process no ambiguity (non-terminal,
\* clashing production, terminals) is reported more than once.
C6_NoAmbiguityReportedTwice ==
  pc = "done" =>
    \A i, j \in 1..Len(diags) :
      (/\ diags[i].nt = diags[j].nt
       /\ diags[i].prod = diags[j].prod
       /\ diags[i].terms = diags[j].terms) => i = j

\* C7: a second process() on the IR the first one populated leaves every
\* is_nullable, first_set, follow_set and predict_set as the first left it.
C7_SecondProcessChangesNothing ==
  pc = "processed_again" =>
    \A n \in 1..Len(nts) :
      /\ nts[n].is_nullable = first_run[n].is_nullable
      /\ nts[n].first_set = first_run[n].first_set
      /\ nts[n].follow_set = first_run[n].follow_set
      /\ \A p \in 1..Len(nts[n].productions) :
           nts[n].productions[p].predict_set =
             first_run[n].productions[p].predict_set

C9_NullableStartFirstHasEof ==
  pc = "first_sets" =>
    \A n \in 1..Len(nts) :
      (nts[n].is_start_term /\ nts[n].is_nullable) => "EOF" \in nts[n].first_set

\* C9 amended: when the start non-terminal is nullable, its first_set after
\* first_sets() holds terminal values of productions only, so EOF is in it
\* only if a production has a terminal EOF; first_sets() adds no EOF.
C9_NullableStartFirstHasEofOnlyFromTokens ==
  pc = "first_sets" =>
    \A n \in 1..Len(nts) :
      (nts[n].is_start_term /\ nts[n].is_nullable) =>
        /\ nts[n].first_set \subseteq TermValues(nts)
        /\ "EOF" \in nts[n].first_set => "EOF" \in TermValues(nts)

\* C9 witness: a nullable start non-terminal with a non-empty first_set
\* that has no EOF in it
C9_Witness ==
  /\ pc = "first_sets"
  /\ \E n \in 1..Len(nts) :
       /\ nts[n].is_start_term
       /\ nts[n].is_nullable
       /\ nts[n].first_set # {}
       /\ "EOF" \notin nts[n].first_set

\* C10: when no terminal value is a non-terminal name, after the analysis no
\* first_set and no follow_set holds a non-terminal name; every member is a
\* terminal value of some production or EOF.
C10_OnlyTerminalsInFirstAndFollow ==
  (pc \notin {"parsed", "nullability"} /\ WellFormed(nts)) =>
    \A n \in 1..Len(nts) :
      /\ (nts[n].first_set \cup nts[n].follow_set) \cap Names(nts) = {}
      /\ nts[n].first_set \subseteq TermValues(nts) \cup {"EOF"}
      /\ nts[n].follow_set \subseteq TermValues(nts) \cup {"EOF"}

\* C10 witness: a follow_set inherited through a non-terminal node: A ends a
\* production of another non-terminal N and holds N's non-empty follow_set
C10_Witness ==
  /\ pc = "follow_sets"
  /\ WellFormed(nts)
  /\ \E t \in Positions(nts) :
       /\ TokenAt(nts, t).kind = "ID"
       /\ Rest(nts, t) = <<>>
       /\ TokenAt(nts, t).value # nts[t[1]].name
       /\ nts[t[1]].follow_set # {}
       /\ nts[t[1]].follow_set \subseteq
            Find(nts, TokenAt(nts, t).value).follow_set

----------------------------------------------------------------------------
\* C11: after the LL pipeline has completed, the predict_set field of every
\* non-terminal is the union of the predict_sets of its productions.
C11_NonTerminalPredictIsUnion ==
  pc = "done" =>
    \A n \in 1..Len(nts) :
      nts[n].predict_set =
        UNION {nts[n].productions[p].predict_set :
                 p \in 1..Len(nts[n].productions)}

----------------------------------------------------------------------------
(* Properties of lr_process                                                *)

\* the positions of lr_process at which closure_set is the final automaton
AutomatonBuilt == pc \in {"recalculated", "state_table", "lr_done", "lr_again"}

\* the items of a closure
Items(clo) == {clo.prods[i] : i \in 1..Len(clo.prods)}

\* the items of a closure that have a symbol after the dot
Unfinished(clo) == {it \in Items(clo) : it.will_match # <<>>}

\* C12: in LR(1) mode, in every state, for every item A -> alpha . B beta
\* with lookahead L where B is a non-terminal, and every production
\* B -> gamma, the state holds an item B -> . gamma whose lookahead includes
\* FIRST(beta) and, when beta is empty or all nullable, L as well.
C12_ClosureLookaheads ==
  (AutomatonBuilt /\ ~is_k0) =>
    \A c \in 1..Len(closure_set) :
      \A it \in Unfinished(closure_set[c]) :
        Head(it.will_match).value \in Names(nts) =>
          LET B == Find(nts, Head(it.will_match).value)
              beta == Tail(it.will_match)
          IN \A p \in 1..Len(B.productions) :
               \E j \in Items(closure_set[c]) :
                 /\ j.nt_name = B.name
                 /\ j.matched = <<>>
                 /\ j.will_match = B.productions[p].list
                 /\ FirstOfSeq(nts, beta) \subseteq j.predict_set
                 /\ AllNullable(nts, beta) => it.predict_set \subseteq j.predict_set

\* C13: for every state C and every item A -> alpha . X beta with lookahead
\* L in C, the state reached from C on X holds the item A -> alpha X . beta
\* with lookahead exactly L.
C13_GotoKeepsLookahead ==
  AutomatonBuilt =>
    \A c \in 1..Len(closure_set) :
      \A it \in Unfinished(closure_set[c]) :
        LET X == Head(it.will_match).value IN
        /\ X \in DOMAIN closure_set[c].transitions
        /\ \E j \in Items(closure_set[c].transitions[X]) :
             /\ j.nt_name = it.nt_name
             /\ j.matched = Append(it.matched, Head(it.will_match))
             /\ j.will_match = Tail(it.will_match)
             /\ j.predict_set = it.predict_set

\* the number of actions a state offers under a lookahead
ActionCount(state, t) ==
  (IF t \in DOMAIN state.actions THEN Len(state.actions[t]) ELSE 0)
    + Len(state.common_actions)

\* the diagnostics check_ambiguities printed for state i and lookahead t
DiagnosticsFor(i, t) ==
  {k \in 1..Len(diags) : diags[k].state = i /\ diags[k].lookahead = t}

\* C14: for every state and every terminal t, if the actions under t plus
\* the common actions number more than one, check_ambiguities printed
\* exactly one diagnostic for the pair, also when t has no entry in the
\* state's actions.
C14_EveryConflictReportedOnce ==
  pc = "lr_done" =>
    \A i \in 1..Len(state_table.states) :
      \A t \in state_table.seen_terms :
        ActionCount(state_table.states[i], t) > 1 =>
          Cardinality(DiagnosticsFor(i - 1, t)) = 1

\* the positions of lr_process at which state_table is the returned table
TableBuilt == pc \in {"state_table", "lr_done"}

\* the places <<i, t, k>> of the table that hold an Accept: the k-th action
\* of state i (counted from 0) under lookahead t
AcceptPlaces(table) ==
  UNION {UNION {{<<i - 1, t, k>> :
                   k \in {j \in 1..Len(table.states[i].actions[t]) :
                            table.states[i].actions[t][j] = Accept}} :
                  t \in DOMAIN table.states[i].actions} :
           i \in 1..Len(table.states)}

\* C15: in both modes, the state reached from state 0 by the goto on the
\* start non-terminal holds exactly one Accept, under lookahead EOF, and the
\* table holds no other Accept, under no lookahead and in no common action.
C15_OneAcceptUnderEof ==
  TableBuilt =>
    LET S == StartNtName(nts) IN
    /\ S \in DOMAIN state_table.states[1].nt_state_transitions
    /\ Cardinality(AcceptPlaces(state_table)) = 1
    /\ \A p \in AcceptPlaces(state_table) :
         /\ p[1] = state_table.states[1].nt_state_transitions[S]
         /\ p[2] = "EOF"
    /\ \A i \in 1..Len(state_table.states) :
         \A k \in 1..Len(state_table.states[i].common_actions) :
           state_table.states[i].common_actions[k] # Accept

\* an LR(0) table whose accepting state also reduces, and an LR(1) one whose
\* accepting state has a second action under EOF, are both built
C15_Witness ==
  /\ TableBuilt
  /\ Len(state_table.states) >= 3
  /\ \E p \in AcceptPlaces(state_table) :
       LET state == state_table.states[p[1] + 1] IN
       IF is_k0 THEN Len(state.common_actions) > 0
       ELSE Len(state.actions["EOF"]) > 1

\* the grammar has one production, whose right-hand side is one terminal
SingleTerminalProduction(ir) ==
  /\ Len(ir) = 1
  /\ Len(ir[1].productions) = 1
  /\ Len(ir[1].productions[1].list) = 1
  /\ ir[1].productions[1].list[1].kind = "TERM"

\* C16: for a grammar with a single production whose right-hand side is one
\* terminal, the table lr_process returns has exactly 4 states.
C16_FourStates ==
  (TableBuilt /\ SingleTerminalProduction(nts)) =>
    Len(state_table.states) = 4

\* C16, amended: the table has exactly 3 states - state 0, the state after
\* the shift of the terminal, whose only action is the reduce, and the
\* accepting state after the goto on the start non-terminal.
C16_ThreeStates ==
  (TableBuilt /\ SingleTerminalProduction(nts)) =>
    /\ Len(state_table.states) = 3
    /\ Len(closure_set) = 3

\* the table of S ::= 'a' has been built: state 0 shifts to state 1 and
\* goes to state 2 on S
C16_Witness ==
  /\ TableBuilt
  /\ SingleTerminalProduction(nts)
  /\ nts[1].productions[1].list[1].value = "a"
  /\ state_table.states[1].actions["a"] = <<Shift(1)>>
  /\ state_table.states[1].nt_state_transitions["S"] = 2

\* the grammar S ::= A 'c' ; A ::= 'a' | 'a' 'b' ;
ShiftReduceExample(ir) ==
  /\ Len(ir) = 2
  /\ ir[1].name = "S" /\ ir[2].name = "A"
  /\ [p \in 1..Len(ir[1].productions) |-> ir[1].productions[p].list]
       = << <<Id("A"), Term("c")>> >>
  /\ [p \in 1..Len(ir[2].productions) |-> ir[2].productions[p].list]
       = << <<Term("a")>>, <<Term("a"), Term("b")>> >>

\* C17: for S ::= A 'c' ; A ::= 'a' | 'a' 'b' lr_process reports no
\* conflict in LR(1) mode, and no state has two actions under a lookahead;
\* in LR(0) mode it reports a conflict in the state reached from state 0 on
\* 'a', under lookahead 'b', between the reduce of A ::= 'a' and the shift
\* on 'b'.
C17_ShiftReduceOnlyInLR0 ==
  (pc = "lr_done" /\ ShiftReduceExample(nts)) =>
    IF ~is_k0
    THEN /\ diags = <<>>
         /\ \A i \in 1..Len(state_table.states) :
              \A t \in state_table.seen_terms :
                ActionCount(state_table.states[i], t) <= 1
    ELSE /\ DOMAIN state_table.states[1].actions = {"a"}
         /\ \E n, m \in 0..(Len(state_table.states) - 1) :
              /\ state_table.states[1].actions["a"] = <<Shift(n)>>
              /\ \E k \in 1..Len(diags) :
                   diags[k] = [state |-> n, lookahead |-> "b",
                               actions |-> <<Shift(m)>>,
                               common_actions |->
                                 <<Reduce(<<Term("a")>>, "A")>>]

\* both tables of the grammar have been built and checked: the LR(0) run
\* printed its one diagnostic, the LR(1) run reduces A ::= 'a' under 'c'
C17_Witness ==
  /\ pc = "lr_done"
  /\ ShiftReduceExample(nts)
  /\ IF is_k0 THEN Len(diags) = 1
     ELSE \E i \in 1..Len(state_table.states) :
            /\ DOMAIN state_table.states[i].actions = {"b", "c"}
            /\ state_table.states[i].actions["c"]
                 = <<Reduce(<<Term("a")>>, "A")>>

C19_NoTwoStatesWithTheSameItems ==
  AutomatonBuilt =>
    \A c, d \in 1..Len(closure_set) :
      Items(closure_set[c]) = Items(closure_set[d]) => c = d

GraphKeys(graph) == DOMAIN graph \cup UNION {{adj.key : adj \in graph[k]} : k \in DOMAIN graph}

\* C21: every traversal process() starts (nullable_dfs for nullability,
\* first_n_follow_set_dfs for the FIRST and the FOLLOW sets) returns, on
\* left-recursive, mutually recursive and nullable-cyclic grammars too, and
\* the set it has collected by then is finite: it holds nodes of the graph
C21_TraversalsReturn ==
  <>(/\ rec_stack = <<>>
     /\ IsFiniteSet(rec_args.first_set)
     /\ rec_args.first_set \subseteq GraphKeys(rec_args.graph))

\* a traversal of a graph with a self-loop (a directly left-recursive
\* non-terminal) has returned
C21_Witness ==
  /\ rec_kind \in {"nullable_dfs", "first_n_follow_set_dfs"}
  /\ rec_stack = <<>>
  /\ \E k \in DOMAIN rec_args.graph :
       \E adj \in rec_args.graph[k] : adj.key = k /\ ~adj.is_term


\* some production of the grammar starts with the non-terminal it belongs to
LeftRecursive(ir) ==
  \E i \in 1..Len(ir) : \E p \in 1..Len(ir[i].productions) :
    /\ ir[i].productions[p].list # <<>>
    /\ Head(ir[i].productions[p].list) = Id(ir[i].name)

\* C22: in LR(0) and in LR(1) mode, fill_out_automaton's recursion over the
\* goto targets and production_closure's recursion over the non-terminals
\* return for every analysed grammar, left-recursive ones included, and
\* leave the root closure and the closure set of the whole run
C22_LRRecursionsReturn ==
  <>(/\ rec_stack = <<>>
     /\ \E ord \in KeyOrders :
          LET r == fill_out_automaton(NtLookup(nts), RootClosure(nts), <<>>,
                                      is_k0, ord)
          IN rec_args.root = r.root /\ rec_args.closure_set = r.closure_set)

\* the automaton of a left-recursive grammar has been filled out in LR(1)
\* mode, with more than one closure
C22_Witness ==
  /\ rec_kind = "fill_out_automaton"
  /\ rec_stack = <<>>
  /\ ~is_k0
  /\ LeftRecursive(nts)
  /\ Len(rec_args.closure_set) > 1


\* the kinds and values of a token sequence, in order
KindsAndValues(tokens) ==
  [i \in 1..Len(tokens) |-> <<tokens[i].kind, tokens[i].value>>]

\* C23: a text that scans successfully also scans successfully with
\* whitespace appended at its end, to the same token kinds and values
C23_TrailingWhitespaceIgnored ==
  (first_scan # <<>> /\ scan_result # <<>>) =>
    /\ IsOk(scan_result)
    /\ KindsAndValues(scan_result[2]) = KindsAndValues(first_scan[2])


\* C24: in the non-terminals Parser::parse returns, names are pairwise
\* distinct, exactly one non-terminal is the start term and it is the first
\* one defined, and every token of kind ID names one of the non-terminals
C24_ParsedIRWellFormed ==
  IsOk(parse_result) =>
    LET ir == parse_result[2] IN
    /\ \A i, j \in 1..Len(ir) : ir[i].name = ir[j].name => i = j
    /\ {i \in 1..Len(ir) : ir[i].is_start_term} = {1}
    /\ ir[1].name = parser.scanner[1].value
    /\ \A t \in Positions(ir) :
         TokenAt(ir, t).kind = "ID" => TokenAt(ir, t).value \in Names(ir)

\* a grammar has been parsed in which a non-terminal is defined twice and
\* an identifier names no non-terminal
C24_Witness ==
  /\ IsOk(parse_result)
  /\ Len(parse_result[2]) <
       Cardinality({i \in 1..Len(parser.scanner) :
                      parser.scanner[i].kind = "EQUALS"})
  /\ \E t \in Positions(parse_result[2]) :
       TokenAt(parse_result[2], t) = Term("A")


\* C25: after nullability(), a non-terminal with a production that is empty
\* or consists only of non-terminals marked is_nullable is itself marked
\* is_nullable, whatever the order of declaration
C25_NullabilityClosed ==
  pc = "nullability" =>
    \A n \in 1..Len(nts) :
      (\E p \in 1..Len(nts[n].productions) :
         AllNullable(nts, nts[n].productions[p].list))
        => nts[n].is_nullable


\* every production of the non-terminal holds a token of kind TERM
TermInEveryProduction(nt) ==
  \A p \in 1..Len(nt.productions) :
    \E i \in 1..Len(nt.productions[p].list) :
      nt.productions[p].list[i].kind = "TERM"

\* C26: nullability() on a fresh IR never marks a non-terminal is_nullable
\* whose every production holds a terminal, whatever refers to it or is
\* referred to by it
C26_TerminalInEveryProductionNotNullable ==
  pc = "nullability" =>
    \A n \in 1..Len(nts) : TermInEveryProduction(nts[n]) => ~nts[n].is_nullable

\* nullability() has run on a grammar where such a non-terminal refers to a
\* non-terminal marked is_nullable, next to its terminal, and is referred to
\* by another non-terminal
C26_Witness ==
  /\ pc = "nullability"
  /\ \E n \in 1..Len(nts) :
       /\ TermInEveryProduction(nts[n])
       /\ ~nts[n].is_nullable
       /\ \E t \in Positions(nts) :
            /\ t[1] = n
            /\ TokenAt(nts, t).kind = "ID"
            /\ Find(nts, TokenAt(nts, t).value).is_nullable
       /\ \E t \in Positions(nts) :
            t[1] # n /\ TokenAt(nts, t) = Id(nts[n].name)


\* the IR as Parser::parse returned it: is_nullable false everywhere
Unmarked(ir) == [n \in 1..Len(ir) |-> [ir[n] EXCEPT !.is_nullable = FALSE]]

\* C29: the is_nullable values nullability() computes do not depend on the
\* order in which the hash-based adjacency sets are iterated: every order
\* gives every non-terminal the value this run gave it
C29_NullabilityOrderIndependent ==
  pc = "nullability" =>
    \A other \in nullability(Unmarked(nts)) :
      NullableInfo(other) = NullableInfo(nts)


\* the actions of a state under a lookahead, none when it has no entry
ActionsUnder(state, t) ==
  IF t \in DOMAIN state.actions THEN state.actions[t] ELSE <<>>

\* the places of a list of actions that hold an action of the given kind
OfKind(actions, kind) == {j \in 1..Len(actions) : actions[j][1] = kind}

\* the completed items A -> matched . of a closure, A a non-terminal, whose
\* lookahead contains t, by their places in the item list
CompletedUnder(clo, t) ==
  {i \in 1..Len(clo.prods) :
     /\ clo.prods[i].will_match = <<>>
     /\ clo.prods[i].nt_name # ""
     /\ t \in clo.prods[i].predict_set}

\* the terminals a state can be asked about
TerminalsOf(clo, state) ==
  state_table.seen_terms \cup DOMAIN state.actions
    \cup (DOMAIN clo.transitions \ Names(nts))
    \cup UNION {clo.prods[i].predict_set : i \in 1..Len(clo.prods)}

\* C27: in LR(1) mode, for every state and terminal t, the actions under t
\* hold one Reduce(matched, A) for each completed item A -> matched . of the
\* state whose lookahead contains t and no other Reduce, a Shift exactly
\* when the state has a transition on t, and common_actions is empty;
\* actions in conflict are all in the list
C27_LR1ActionsFollowItems ==
  (TableBuilt /\ ~is_k0) =>
    \A k \in 1..Len(state_table.states) :
      LET clo == closure_set[k]
          state == state_table.states[k]
      IN /\ state.common_actions = <<>>
         /\ \A t \in TerminalsOf(clo, state) :
              LET actions == ActionsUnder(state, t) IN
              /\ Cardinality(OfKind(actions, "Reduce"))
                   = Cardinality(CompletedUnder(clo, t))
              /\ \A i \in CompletedUnder(clo, t) :
                   \E j \in OfKind(actions, "Reduce") :
                     actions[j] = Reduce(clo.prods[i].matched,
                                         clo.prods[i].nt_name)
              /\ Cardinality(OfKind(actions, "Shift"))
                   = IF t \in DOMAIN clo.transitions \ Names(nts)
                     THEN 1 ELSE 0

\* an LR(1) table has been built in which a state holds two Reduce actions
\* under one terminal
C27_Witness ==
  /\ TableBuilt
  /\ ~is_k0
  /\ \E k \in 1..Len(state_table.states) :
       \E t \in DOMAIN state_table.states[k].actions :
         Cardinality(OfKind(state_table.states[k].actions[t], "Reduce")) > 1


\* the state indices a table refers to: the targets of its Shift actions and
\* of its gotos
TargetsOf(table) ==
  UNION {UNION {{state.actions[t][j][2] : j \in OfKind(state.actions[t], "Shift")} :
                  t \in DOMAIN state.actions}
           \cup {state.nt_state_transitions[n] :
                   n \in DOMAIN state.nt_state_transitions} :
         state \in {table.states[k] : k \in 1..Len(table.states)}}

\* C28: in either mode lr_process never panics with "Unable to find State!":
\* every transition target of every closure of the final set has the item
\* list of a closure of the set, and every Shift and goto of the table holds
\* the index of a state
C28_EveryTargetIsAState ==
  /\ pc # "panic"
  /\ AutomatonBuilt =>
       \A c \in 1..Len(closure_set) :
         \A key \in DOMAIN closure_set[c].transitions :
           \E d \in 1..Len(closure_set) :
             closure_set[d].prods = closure_set[c].transitions[key].prods
  /\ TableBuilt =>
       /\ Len(state_table.states) = Len(closure_set)
       /\ TargetsOf(state_table) \subseteq 0..(Len(closure_set) - 1)

\* a table has been built for a left-recursive grammar in which two
\* transitions lead to one state, one of them from that state itself
C28_Witness ==
  /\ TableBuilt
  /\ LeftRecursive(nts)
  /\ \E c \in 1..Len(closure_set) :
       \E key \in DOMAIN closure_set[c].transitions :
         /\ find_closure_index(closure_set, closure_set[c].transitions[key])
              = <<c - 1>>
         /\ c - 1 \in TargetsOf(state_table)

====
